---------------------------- MODULE Spec2Model ----------------------------
(***************************************************************************)
(* A model of pkg/tcpip/stack/transport_demuxer.go: the transport          *)
(* demultiplexer of the network stack.  The registry                       *)
(*   protocolIDs -> TransportEndpointID -> NICID -> multiPortEndpoint      *)
(* is the state; registration, unregistration and the delivery entry       *)
(* points are the actions.  Every Go function is an operator of the same   *)
(* name (methods carry their receiver type as a prefix).                   *)
(***************************************************************************)
EXTENDS Integers, Sequences, FiniteSets, TLC

VARIABLES
    protocol,         \* transportDemuxer.protocol: protocolIDs -> transportEndpoints
    queuedProtocols,  \* the key set of transportDemuxer.queuedProtocols
    last,             \* the call the (single) caller made last, and its outcome
    created,          \* history: (pair, id, nic) -> reusePort the caller passed when the set was created
    affinity,         \* history: the member selected per flow since the set last changed
    thread,           \* the goroutines inside the demuxer: where each is in its call
    mu                \* transportEndpoints.mu per pair: the goroutine holding it for writing

vars == <<protocol, queuedProtocols, last, created, affinity, thread, mu>>

-----------------------------------------------------------------------------
(* Bounds of the model. *)

\* Endpoints are identified by their UniqueID, 1..NumEndpoints.
NumEndpoints == 2
\* At most this many registrations (members over all sets) at any time.
MaxRegistrations == 3

-----------------------------------------------------------------------------
(* Protocol numbers and addresses. tcpip.Address is a byte string: here a   *)
(* sequence of bytes.                                                      *)

IPv4ProtocolNumber == "ipv4"
IPv6ProtocolNumber == "ipv6"
\* A network protocol the stack was not built with.
UnknownNetProto == "arp"
UDPProtocolNumber == "udp"
TCPProtocolNumber == "tcp"
\* A transport protocol that is neither UDP nor TCP.
ICMPv4ProtocolNumber == "icmp"
\* A transport protocol the stack was not built with.
UnknownTransProto == "sctp"

IPv4Any == <<0, 0, 0, 0>>
IPv4Broadcast == <<255, 255, 255, 255>>
IPv6Any == <<0, 0, 0, 0, 0, 0, 0, 0, 0, 0, 0, 0, 0, 0, 0, 0>>

IsV4MulticastAddress(addr) ==
    Len(addr) = 4 /\ addr[1] \div 16 = 14

IsV6MulticastAddress(addr) ==
    Len(addr) = 16 /\ addr[1] = 255

isMulticastOrBroadcast(addr) ==
    addr = IPv4Broadcast \/ IsV4MulticastAddress(addr) \/ IsV6MulticastAddress(addr)

\* Mutant: the any-address counts as unicast.
isUnicast_butAny(addr) == ~isMulticastOrBroadcast(addr)

isUnicast(addr) ==
    addr # IPv4Any /\ addr # IPv6Any /\ ~isMulticastOrBroadcast(addr)

\* tcpip.Error values; nil is success.
nil == "nil"
ErrPortInUse == "ErrPortInUse"
ErrUnknownProtocol == "ErrUnknownProtocol"
ErrNotSupported == "ErrNotSupported"

\* Mutant: the key of a registry leaves the network protocol out.
protocolIDs_transportOnly(network, transport) ==
    [network |-> IPv4ProtocolNumber, transport |-> transport]

protocolIDs(network, transport) == [network |-> network, transport |-> transport]

TransportEndpointID(localPort, localAddress, remotePort, remoteAddress) ==
    [LocalPort |-> localPort, LocalAddress |-> localAddress,
     RemotePort |-> remotePort, RemoteAddress |-> remoteAddress]

-----------------------------------------------------------------------------
(* transportEndpointHeap under container/heap. Indices are Go's, from 0.    *)

Less(h, i, j) == h[i + 1] < h[j + 1]

Swap(h, i, j) == [h EXCEPT ![i + 1] = h[j + 1], ![j + 1] = h[i + 1]]

RECURSIVE up(_, _)
up(h, j) ==
    LET i == IF j = 0 THEN 0 ELSE (j - 1) \div 2 \* parent; Go's (j-1)/2 is 0 for j = 0
    IN  IF i = j \/ ~Less(h, j, i) THEN h ELSE up(Swap(h, i, j), i)

RECURSIVE down(_, _, _, _)
down(h, i0, i, n) ==
    LET j1 == 2 * i + 1
        j2 == j1 + 1
        j  == IF j2 < n /\ Less(h, j2, j1) THEN j2 ELSE j1
    IN  IF j1 >= n THEN [h |-> h, moved |-> i > i0]
        ELSE IF ~Less(h, j, i) THEN [h |-> h, moved |-> i > i0]
        ELSE down(Swap(h, i, j), i0, j, n)

\* heap.Push(&h, x): transportEndpointHeap.Push appends, then up.
heapPush(h, x) == up(Append(h, x), Len(h))

\* heap.Remove(&h, i): swap with the last, restore the order, Pop the last.
heapRemove(h, i) ==
    LET n  == Len(h) - 1
        h1 == IF n # i
              THEN LET s == Swap(h, i, n)
                       d == down(s, i, i, n)
                   IN  IF ~d.moved THEN up(d.h, i) ELSE d.h
              ELSE h
    IN  SubSeq(h1, 1, n)

-----------------------------------------------------------------------------
(* multiPortEndpoint: [netProto, transProto, endpoints (the heap), reuse].  *)

\* The index of the first element of h equal to t, Go's range loop; -1 if none.
firstIndex(h, t) ==
    IF \E k \in 1..Len(h) : h[k] = t
    THEN (CHOOSE k \in 1..Len(h) : h[k] = t /\ \A m \in 1..(k - 1) : h[m] # t) - 1
    ELSE -1

\* Mutant: only the caller's reusePort is consulted, not the set's reuse flag.
multiPortEndpoint_singleRegisterEndpoint_callerOnly(ep, t, reusePort) ==
    IF Len(ep.endpoints) # 0 /\ ~reusePort
    THEN [err |-> ErrPortInUse, ep |-> ep]
    ELSE [err |-> nil, ep |-> [ep EXCEPT !.endpoints = heapPush(@, t)]]

multiPortEndpoint_singleRegisterEndpoint(ep, t, reusePort) ==
    IF Len(ep.endpoints) # 0 /\ (~ep.reuse \/ ~reusePort)
    THEN [err |-> ErrPortInUse, ep |-> ep]
    ELSE [err |-> nil, ep |-> [ep EXCEPT !.endpoints = heapPush(@, t)]]

\* Returns the set after the removal and whether it has to be unregistered.
\* Mutant: an element is removed although t was not found.
multiPortEndpoint_unregisterEndpoint_anyMember(ep, t) ==
    LET i  == firstIndex(ep.endpoints, t)
        e2 == [ep EXCEPT !.endpoints = heapRemove(@, IF i >= 0 THEN i ELSE 0)]
    IN  [ep |-> e2, empty |-> Len(e2.endpoints) = 0]

multiPortEndpoint_unregisterEndpoint(ep, t) ==
    LET i  == firstIndex(ep.endpoints, t)
        e2 == IF i >= 0 THEN [ep EXCEPT !.endpoints = heapRemove(@, i)] ELSE ep
    IN  [ep |-> e2, empty |-> Len(e2.endpoints) = 0]

-----------------------------------------------------------------------------
(* endpointsByNic: [endpoints: NICID -> multiPortEndpoint, seed].           *)

\* m with key k removed, Go's delete(m, k).
delete(m, k) == [x \in (DOMAIN m) \ {k} |-> m[x]]

\* m with m[k] = v, Go's m[k] = v.
store(m, k, v) == [x \in (DOMAIN m) \cup {k} |-> IF x = k THEN v ELSE m[x]]

\* Mutant: the group keeps one set for all NICs, under key 0.
endpointsByNic_registerEndpoint_sharedSet(epsByNic, netProto, transProto, t, reusePort, bindToDevice) ==
    LET ok == 0 \in DOMAIN epsByNic.endpoints
        multiPortEp == IF ok THEN epsByNic.endpoints[0]
                       ELSE [netProto |-> netProto, transProto |-> transProto,
                             endpoints |-> <<>>, reuse |-> reusePort]
        r == multiPortEndpoint_singleRegisterEndpoint(multiPortEp, t, reusePort)
    IN  [err |-> r.err,
         epsByNic |-> [epsByNic EXCEPT !.endpoints = store(@, 0, r.ep)]]

endpointsByNic_registerEndpoint(epsByNic, netProto, transProto, t, reusePort, bindToDevice) ==
    LET ok == bindToDevice \in DOMAIN epsByNic.endpoints
        multiPortEp == IF ok THEN epsByNic.endpoints[bindToDevice]
                       ELSE [netProto |-> netProto, transProto |-> transProto,
                             endpoints |-> <<>>, reuse |-> reusePort]
        r == multiPortEndpoint_singleRegisterEndpoint(multiPortEp, t, reusePort)
    IN  [err |-> r.err,
         epsByNic |-> [epsByNic EXCEPT !.endpoints = store(@, bindToDevice, r.ep)]]

\* Mutant: a set that has lost its last member stays in the group.
endpointsByNic_unregisterEndpoint_keepSet(epsByNic, bindToDevice, t) ==
    IF bindToDevice \notin DOMAIN epsByNic.endpoints
    THEN [epsByNic |-> epsByNic, empty |-> FALSE]
    ELSE LET r == multiPortEndpoint_unregisterEndpoint(epsByNic.endpoints[bindToDevice], t)
         IN  [epsByNic |-> [epsByNic EXCEPT !.endpoints = store(@, bindToDevice, r.ep)],
              empty |-> FALSE]

\* Returns the group after the removal and whether it has to be unregistered.
endpointsByNic_unregisterEndpoint(epsByNic, bindToDevice, t) ==
    IF bindToDevice \notin DOMAIN epsByNic.endpoints
    THEN [epsByNic |-> epsByNic, empty |-> FALSE]
    ELSE LET r  == multiPortEndpoint_unregisterEndpoint(epsByNic.endpoints[bindToDevice], t)
             e2 == IF r.empty
                   THEN delete(epsByNic.endpoints, bindToDevice)
                   ELSE store(epsByNic.endpoints, bindToDevice, r.ep)
         IN  [epsByNic |-> [epsByNic EXCEPT !.endpoints = e2],
              empty |-> DOMAIN e2 = {}]

-----------------------------------------------------------------------------
(* transportEndpoints: [endpoints: TransportEndpointID -> endpointsByNic,   *)
(* rawEndpoints].                                                          *)

\* Mutant: the group stays in the map when its last NIC entry has gone.
transportEndpoints_unregisterEndpoint_keepEntry(eps, id, ep, bindToDevice) ==
    IF id \notin DOMAIN eps.endpoints THEN eps
    ELSE [eps EXCEPT !.endpoints =
            store(@, id, endpointsByNic_unregisterEndpoint(eps.endpoints[id], bindToDevice, ep).epsByNic)]

transportEndpoints_unregisterEndpoint(eps, id, ep, bindToDevice) ==
    IF id \notin DOMAIN eps.endpoints THEN eps
    ELSE LET r == endpointsByNic_unregisterEndpoint(eps.endpoints[id], bindToDevice, ep)
         IN  IF ~r.empty
             THEN [eps EXCEPT !.endpoints = store(@, id, r.epsByNic)]
             ELSE [eps EXCEPT !.endpoints = delete(@, id)]

-----------------------------------------------------------------------------
(* 32-bit unsigned arithmetic. A uint32 is kept as <<high 16 bits, low 16   *)
(* bits>>, so that no intermediate value leaves the range of the checker's *)
(* integers; every operation is taken modulo 2^32 as Go's uint32 is.       *)

W16 == 256 * 256

pow2(k) == CASE k = 0 -> 1 [] k = 1 -> 2 [] k = 3 -> 8 [] k = 5 -> 32 [] k = 6 -> 64
             [] k = 10 -> 1024 [] k = 11 -> 2048 [] k = 13 -> 8192 [] k = 15 -> 32768

u32(hi, lo) == <<hi, lo>>

add32(a, b) ==
    LET lo == a[2] + b[2]
    IN  <<(a[1] + b[1] + (lo \div W16)) % W16, lo % W16>>

\* a << k for 0 < k < 16
shl32(a, k) ==
    <<(((a[1] * pow2(k)) % W16) + (a[2] \div pow2(16 - k))) % W16, (a[2] * pow2(k)) % W16>>

\* a >> k for 0 < k < 16
shr32(a, k) ==
    <<a[1] \div pow2(k), (a[2] \div pow2(k)) + ((a[1] % pow2(k)) * pow2(16 - k))>>

RECURSIVE xor16(_, _)
xor16(a, b) ==
    IF a = 0 THEN b
    ELSE IF b = 0 THEN a
    ELSE ((a + b) % 2) + (2 * xor16(a \div 2, b \div 2))

xor32(a, b) == <<xor16(a[1], b[1]), xor16(a[2], b[2])>>

(* jenkins.Sum32: the one-at-a-time hash of pkg/tcpip/hash/jenkins.         *)
RECURSIVE jenkins_Write(_, _)
jenkins_Write(sum, data) ==
    IF data = <<>> THEN sum
    ELSE LET s1 == add32(sum, u32(0, Head(data)))  \* sum += uint32(c)
             s2 == add32(s1, shl32(s1, 10))          \* sum += sum << 10
             s3 == xor32(s2, shr32(s2, 6))           \* sum ^= sum >> 6
         IN  \* the comparison evaluates s3 here, before the next byte is taken
             IF s3 = sum THEN jenkins_Write(sum, Tail(data))
             ELSE jenkins_Write(s3, Tail(data))

jenkins_Sum32(sum) ==
    LET h1 == add32(sum, shl32(sum, 3))   \* hash += hash << 3
        h2 == xor32(h1, shr32(h1, 11))    \* hash ^= hash >> 11
    IN  add32(h2, shl32(h2, 15))          \* hash += hash << 15

\* Mutant: the product is shifted by 16 bits.
reciprocalScale_shift16(val, n) ==
    (val[1] * n) + ((val[2] * n) \div W16)

\* reciprocalScale scales val into [0, n): uint32((uint64(val) * uint64(n)) >> 32).
\* With val = hi * 2^16 + lo this is (hi * n + (lo * n) >> 16) >> 16.
reciprocalScale(val, n) ==
    ((val[1] * n) + ((val[2] * n) \div W16)) \div W16

\* byte(x) of a 16-bit port
byte(x) == x % 256

\* The hash selectEndpoint computes for id under seed.
selectHash(id, seed) ==
    LET payload == <<byte(id.LocalPort), byte(id.LocalPort \div 256),
                     byte(id.RemotePort), byte(id.RemotePort \div 256)>>
        h1 == jenkins_Write(seed, payload)
        h2 == jenkins_Write(h1, id.LocalAddress)
        h3 == jenkins_Write(h2, id.RemoteAddress)
    IN  jenkins_Sum32(h3)

\* selectEndpoint: the member of mpep that receives the packets of flow id.
selectEndpoint(id, mpep, seed) ==
    IF Len(mpep.endpoints) = 1 THEN mpep.endpoints[1]
    ELSE LET idx == reciprocalScale(selectHash(id, seed), Len(mpep.endpoints))
         IN  mpep.endpoints[idx + 1]

-----------------------------------------------------------------------------
(* transportDemuxer: registration.  p is the protocol map the function      *)
(* works on; the functions return the map they leave behind.               *)

\* Mutant: the caller's reusePort is used whatever the remote port is.
transportDemuxer_singleRegisterEndpoint_noPinning(p, netProto, transProto, id, ep, reusePort, bindToDevice, seed) ==
    LET pid == protocolIDs(netProto, transProto)
    IN  IF pid \notin DOMAIN p THEN [err |-> ErrUnknownProtocol, p |-> p]
        ELSE LET epsByNic == IF id \in DOMAIN p[pid].endpoints THEN p[pid].endpoints[id]
                             ELSE [endpoints |-> <<>>, seed |-> seed]
                 r == endpointsByNic_registerEndpoint(epsByNic, netProto, transProto, ep, reusePort, bindToDevice)
             IN  [err |-> r.err,
                  p |-> [p EXCEPT ![pid].endpoints = store(@, id, r.epsByNic)]]

\* Mutant: every registration draws a seed for the group.
transportDemuxer_singleRegisterEndpoint_reseed(p, netProto, transProto, id, ep, reusePort, bindToDevice, seed) ==
    LET reuse == IF id.RemotePort # 0 THEN FALSE ELSE reusePort
        pid   == protocolIDs(netProto, transProto)
    IN  IF pid \notin DOMAIN p THEN [err |-> ErrUnknownProtocol, p |-> p]
        ELSE LET eps      == p[pid]
                 epsByNic == IF id \in DOMAIN eps.endpoints
                             THEN [eps.endpoints[id] EXCEPT !.seed = seed]
                             ELSE [endpoints |-> <<>>, seed |-> seed]
                 r == endpointsByNic_registerEndpoint(epsByNic, netProto, transProto, ep, reuse, bindToDevice)
             IN  [err |-> r.err,
                  p |-> [p EXCEPT ![pid].endpoints = store(@, id, r.epsByNic)]]

\* seed is the value rand.Uint32() returns if the group has to be created.
transportDemuxer_singleRegisterEndpoint(p, netProto, transProto, id, ep, reusePort, bindToDevice, seed) ==
    LET reuse == IF id.RemotePort # 0 THEN FALSE ELSE reusePort
        pid   == protocolIDs(netProto, transProto)
    IN  IF pid \notin DOMAIN p THEN [err |-> ErrUnknownProtocol, p |-> p]
        ELSE LET eps      == p[pid]
                 epsByNic == IF id \in DOMAIN eps.endpoints THEN eps.endpoints[id]
                             ELSE [endpoints |-> <<>>, seed |-> seed]
                 r == endpointsByNic_registerEndpoint(epsByNic, netProto, transProto, ep, reuse, bindToDevice)
             IN  [err |-> r.err,
                  p |-> [p EXCEPT ![pid].endpoints = store(@, id, r.epsByNic)]]

\* Mutant: the endpoint is unregistered from the first network protocol only.
transportDemuxer_unregisterEndpoint_firstOnly(p, netProtos, transProto, id, ep, bindToDevice) ==
    IF netProtos = <<>> \/ protocolIDs(Head(netProtos), transProto) \notin DOMAIN p THEN p
    ELSE [p EXCEPT ![protocolIDs(Head(netProtos), transProto)] =
            transportEndpoints_unregisterEndpoint(@, id, ep, bindToDevice)]

RECURSIVE transportDemuxer_unregisterEndpoint(_, _, _, _, _, _)
transportDemuxer_unregisterEndpoint(p, netProtos, transProto, id, ep, bindToDevice) ==
    IF netProtos = <<>> THEN p
    ELSE LET pid == protocolIDs(Head(netProtos), transProto)
             p2  == IF pid \in DOMAIN p
                    THEN [p EXCEPT ![pid] = transportEndpoints_unregisterEndpoint(@, id, ep, bindToDevice)]
                    ELSE p
         IN  transportDemuxer_unregisterEndpoint(p2, Tail(netProtos), transProto, id, ep, bindToDevice)

\* Mutant: a failure returns the error and leaves the earlier registrations.
RECURSIVE registerLoop_noRollback(_, _, _, _, _, _, _, _, _)
registerLoop_noRollback(p, netProtos, i, transProto, id, ep, reusePort, bindToDevice, seeds) ==
    IF i > Len(netProtos) THEN [err |-> nil, p |-> p]
    ELSE LET r == transportDemuxer_singleRegisterEndpoint(p, netProtos[i], transProto, id, ep,
                                                         reusePort, bindToDevice, seeds[i])
         IN  IF r.err # nil THEN r
             ELSE registerLoop_noRollback(r.p, netProtos, i + 1, transProto, id, ep, reusePort,
                                          bindToDevice, seeds)

\* The loop of registerEndpoint from index i (from 1) on; seeds[i] is the
\* value rand.Uint32() returns in the i-th singleRegisterEndpoint.
RECURSIVE registerLoop(_, _, _, _, _, _, _, _, _)
registerLoop(p, netProtos, i, transProto, id, ep, reusePort, bindToDevice, seeds) ==
    IF i > Len(netProtos) THEN [err |-> nil, p |-> p]
    ELSE LET r == transportDemuxer_singleRegisterEndpoint(p, netProtos[i], transProto, id, ep,
                                                         reusePort, bindToDevice, seeds[i])
         IN  IF r.err # nil
             THEN [err |-> r.err,
                   p |-> transportDemuxer_unregisterEndpoint(r.p, SubSeq(netProtos, 1, i - 1),
                                                             transProto, id, ep, bindToDevice)]
             ELSE registerLoop(r.p, netProtos, i + 1, transProto, id, ep, reusePort, bindToDevice, seeds)

transportDemuxer_registerEndpoint(p, netProtos, transProto, id, ep, reusePort, bindToDevice, seeds) ==
    registerLoop(p, netProtos, 1, transProto, id, ep, reusePort, bindToDevice, seeds)

\* Mutant: the registry of a pair the demuxer lacks is made on demand.
transportDemuxer_registerRawEndpoint_lazyPair(p, netProto, transProto, ep) ==
    LET pid == protocolIDs(netProto, transProto)
    IN  IF pid \notin DOMAIN p
        THEN [err |-> nil, p |-> store(p, pid, [endpoints |-> <<>>, rawEndpoints |-> <<ep>>])]
        ELSE [err |-> nil, p |-> [p EXCEPT ![pid].rawEndpoints = Append(@, ep)]]

transportDemuxer_registerRawEndpoint(p, netProto, transProto, ep) ==
    LET pid == protocolIDs(netProto, transProto)
    IN  IF pid \notin DOMAIN p THEN [err |-> ErrNotSupported, p |-> p]
        ELSE [err |-> nil, p |-> [p EXCEPT ![pid].rawEndpoints = Append(@, ep)]]

\* Mutant: the list is cut by one without moving the last element.
rawRemove_truncate(raw, ep) ==
    LET i == firstIndex(raw, ep)
        lastIdx == Len(raw) - 1
    IN  IF i < 0 THEN raw
        ELSE SubSeq(raw, 1, lastIdx)

\* The raw list with its first occurrence of ep overwritten by the last element
\* and the list cut by one.
rawRemove(raw, ep) ==
    LET i == firstIndex(raw, ep)
        lastIdx == Len(raw) - 1
    IN  IF i < 0 THEN raw
        ELSE SubSeq([raw EXCEPT ![i + 1] = raw[lastIdx + 1]], 1, lastIdx)

\* Mutant: a pair the demuxer lacks is skipped, as unregisterEndpoint does.
unregisterRawEndpoint_panics_never(p, netProto, transProto) == FALSE

\* Whether unregisterRawEndpoint panics: the pair has no registry.
unregisterRawEndpoint_panics(p, netProto, transProto) ==
    protocolIDs(netProto, transProto) \notin DOMAIN p

\* Only for a supported pair: for any other pair the function panics.
transportDemuxer_unregisterRawEndpoint(p, netProto, transProto, ep) ==
    [p EXCEPT ![protocolIDs(netProto, transProto)].rawEndpoints = rawRemove(@, ep)]

-----------------------------------------------------------------------------
(* Lookup.  A *endpointsByNic is named by the key it is stored under; a     *)
(* nil or a list of pointers is a sequence of keys.                        *)

\* Mutant: the remote part is wildcarded before the local address.
probes_remoteFirst(id) ==
    LET nid1 == [id EXCEPT !.LocalAddress = <<>>]
        nid2 == [id EXCEPT !.RemoteAddress = <<>>, !.RemotePort = 0]
        nid3 == [nid2 EXCEPT !.LocalAddress = <<>>]
    IN  <<id, nid2, nid1, nid3>>

\* Mutant: the id of the packet itself is not probed.
probes_wildcardOnly(id) ==
    LET nid1 == [id EXCEPT !.LocalAddress = <<>>]
        nid2 == [nid1 EXCEPT !.LocalAddress = id.LocalAddress,
                             !.RemoteAddress = <<>>, !.RemotePort = 0]
        nid3 == [nid2 EXCEPT !.LocalAddress = <<>>]
    IN  <<nid1, nid2, nid3>>

\* Mutant: the ids without a local address are not probed.
probes_boundOnly(id) ==
    <<id, [id EXCEPT !.RemoteAddress = <<>>, !.RemotePort = 0]>>

\* The four ids iterEndpointsLocked probes for id, in its order.
probes(id) ==
    LET nid1 == [id EXCEPT !.LocalAddress = <<>>]
        nid2 == [nid1 EXCEPT !.LocalAddress = id.LocalAddress,
                             !.RemoteAddress = <<>>, !.RemotePort = 0]
        nid3 == [nid2 EXCEPT !.LocalAddress = <<>>]
    IN  <<id, nid1, nid2, nid3>>

\* The groups yielded from probe k on; more is what yield returns.
RECURSIVE iterFrom(_, _, _, _)
iterFrom(eps, ps, k, more) ==
    IF k > Len(ps) THEN <<>>
    ELSE IF ps[k] \in DOMAIN eps.endpoints
         THEN IF ~more THEN <<ps[k]>>
              ELSE <<ps[k]>> \o iterFrom(eps, ps, k + 1, more)
         ELSE iterFrom(eps, ps, k + 1, more)

iterEndpointsLocked(eps, id, more) == iterFrom(eps, probes(id), 1, more)

\* Mutant: the iteration stops at the first match.
findAllEndpointsLocked_first(eps, id) == iterEndpointsLocked(eps, id, FALSE)

findAllEndpointsLocked(eps, id) == iterEndpointsLocked(eps, id, TRUE)

\* <<>> is nil.
findEndpointLocked(eps, id) == iterEndpointsLocked(eps, id, FALSE)

-----------------------------------------------------------------------------
(* Delivery.  A route is [NetProto, nic, LocalAddress, RemoteAddress]; a    *)
(* packet buffer is a number, 0 the buffer the caller hands in, and         *)
(* pkt.Clone() is the next unused number.  Each function returns the calls *)
(* it makes on endpoints, in order, as [ep, method, pkt, group, nic]: the  *)
(* endpoint, the method called, the buffer handed over, and the group and  *)
(* the NIC entry the endpoint was taken from.                              *)

call(ep, method, pkt, group, nic) ==
    [ep |-> ep, method |-> method, pkt |-> pkt, group |-> group, nic |-> nic]

\* Mutant: a group without a set for the receiving NIC or for NIC 0 resolves
\* to one of the sets it has.
resolveNic_anySet(epsByNic, n) ==
    IF n \in DOMAIN epsByNic.endpoints THEN <<n>>
    ELSE IF 0 \in DOMAIN epsByNic.endpoints THEN <<0>>
    ELSE IF DOMAIN epsByNic.endpoints = {} THEN <<>>
    ELSE <<CHOOSE k \in DOMAIN epsByNic.endpoints : TRUE>>

\* Mutant: the set of NIC 0 is taken before the set of the receiving NIC.
resolveNic_anyFirst(epsByNic, n) ==
    IF 0 \in DOMAIN epsByNic.endpoints THEN <<0>>
    ELSE IF n \in DOMAIN epsByNic.endpoints THEN <<n>>
    ELSE <<>>

\* The NIC entry the group resolves to for receiving NIC n: <<>> if none.
resolveNic(epsByNic, n) ==
    IF n \in DOMAIN epsByNic.endpoints THEN <<n>>
    ELSE IF 0 \in DOMAIN epsByNic.endpoints THEN <<0>>
    ELSE <<>>

\* Mutant: the endpoint is called whether the pair is queued or not.
deliverMethod_direct(mpep) == "HandlePacket"

deliverMethod(mpep) ==
    IF protocolIDs(mpep.netProto, mpep.transProto) \in queuedProtocols
    THEN "QueuePacket" ELSE "HandlePacket"

\* Mutant: every member gets pkt itself.
multiPortEndpoint_handlePacketAll_noClone(mpep, pkt, fresh, group, nic) ==
    [calls |-> [k \in 1..Len(mpep.endpoints) |->
                  call(mpep.endpoints[k], deliverMethod(mpep), pkt, group, nic)],
     fresh |-> fresh]

\* Mutant: only the last member is called.
multiPortEndpoint_handlePacketAll_lastOnly(mpep, pkt, fresh, group, nic) ==
    [calls |-> <<call(mpep.endpoints[Len(mpep.endpoints)], deliverMethod(mpep), pkt, group, nic)>>,
     fresh |-> fresh]

\* Every member but the last gets pkt.Clone(), the last gets pkt.
multiPortEndpoint_handlePacketAll(mpep, pkt, fresh, group, nic) ==
    LET n == Len(mpep.endpoints)
    IN  [calls |-> [k \in 1..n |->
                      call(mpep.endpoints[k], deliverMethod(mpep),
                           IF k < n THEN fresh + k - 1 ELSE pkt, group, nic)],
         fresh |-> fresh + n - 1]

\* Mutant: the hash is seeded with the receiving NIC, not with the group's seed.
endpointsByNic_handlePacket_nicSeed(epsByNic, r, id, pkt, fresh, group) ==
    LET nic == resolveNic(epsByNic, r.nic)
    IN  IF nic = <<>> THEN [calls |-> <<>>, fresh |-> fresh]
        ELSE LET mpep == epsByNic.endpoints[nic[1]]
             IN  IF isMulticastOrBroadcast(id.LocalAddress)
                 THEN multiPortEndpoint_handlePacketAll(mpep, pkt, fresh, group, nic[1])
                 ELSE [calls |-> <<call(selectEndpoint(id, mpep, u32(0, r.nic)),
                                        deliverMethod(mpep), pkt, group, nic[1])>>,
                       fresh |-> fresh]

\* Mutant: a member is selected whatever the local address is, as for a
\* control packet.
endpointsByNic_handlePacket_alwaysSelect(epsByNic, r, id, pkt, fresh, group) ==
    LET nic == resolveNic(epsByNic, r.nic)
    IN  IF nic = <<>> THEN [calls |-> <<>>, fresh |-> fresh]
        ELSE [calls |-> <<call(selectEndpoint(id, epsByNic.endpoints[nic[1]], epsByNic.seed),
                               deliverMethod(epsByNic.endpoints[nic[1]]), pkt, group, nic[1])>>,
              fresh |-> fresh]

endpointsByNic_handlePacket(epsByNic, r, id, pkt, fresh, group) ==
    LET nic == resolveNic(epsByNic, r.nic)
    IN  IF nic = <<>> THEN [calls |-> <<>>, fresh |-> fresh]
        ELSE LET mpep == epsByNic.endpoints[nic[1]]
             IN  IF isMulticastOrBroadcast(id.LocalAddress)
                 THEN multiPortEndpoint_handlePacketAll(mpep, pkt, fresh, group, nic[1])
                 ELSE [calls |-> <<call(selectEndpoint(id, mpep, epsByNic.seed),
                                        deliverMethod(mpep), pkt, group, nic[1])>>,
                       fresh |-> fresh]

endpointsByNic_handleControlPacket(epsByNic, n, id, pkt, group) ==
    LET nic == resolveNic(epsByNic, n)
    IN  IF nic = <<>> THEN <<>>
        ELSE <<call(selectEndpoint(id, epsByNic.endpoints[nic[1]], epsByNic.seed),
                    "HandleControlPacket", pkt, group, nic[1])>>

\* The multicast loop of deliverPacket over destEPs from index k on: every
\* group but the last is handed pkt.Clone(), the last pkt.  handed lists the
\* groups whose handlePacket was called, with the buffer passed.
RECURSIVE deliverAll(_, _, _, _, _, _)
deliverAll(eps, destEPs, k, r, id, fresh) ==
    LET isLast == k = Len(destEPs)
        pkt == IF isLast THEN 0 ELSE fresh
        then(h, rest) == [calls |-> h.calls \o rest.calls,
                          handed |-> <<[group |-> destEPs[k], pkt |-> pkt]>> \o rest.handed]
        after(h) == then(h, IF isLast THEN [calls |-> <<>>, handed |-> <<>>]
                            ELSE deliverAll(eps, destEPs, k + 1, r, id, h.fresh))
    IN  after(endpointsByNic_handlePacket(eps.endpoints[destEPs[k]], r, id, pkt,
                                          IF isLast THEN fresh ELSE fresh + 1, destEPs[k]))

\* The counters of r.Stats() belong to the stack: an Increment() is recorded as
\* a call on the counter.
UnknownPortErrors == "UDP.UnknownPortErrors"
InvalidSegmentsReceived == "TCP.InvalidSegmentsReceived"

\* Returns [ret, calls, handed, incs]: the result, the endpoint calls made, the
\* groups the packet was handed to and the counters incremented, in order.
transportDemuxer_deliverPacket(p, r, transProto, id) ==
    LET pid  == protocolIDs(r.NetProto, transProto)
        none == [ret |-> FALSE, calls |-> <<>>, handed |-> <<>>, incs |-> <<>>]
    IN  IF pid \notin DOMAIN p THEN none
        ELSE IF transProto = UDPProtocolNumber /\ isMulticastOrBroadcast(id.LocalAddress)
        THEN LET destEPs == findAllEndpointsLocked(p[pid], id)
             IN  IF Len(destEPs) = 0
                 THEN [none EXCEPT !.incs = <<UnknownPortErrors>>]
                 ELSE LET done(d) == [ret |-> TRUE, calls |-> d.calls, handed |-> d.handed,
                                      incs |-> <<>>]
                      IN  done(deliverAll(p[pid], destEPs, 1, r, id, 1))
        ELSE IF transProto = TCPProtocolNumber
                /\ (~isUnicast(r.LocalAddress) \/ ~isUnicast(r.RemoteAddress))
        THEN [none EXCEPT !.ret = TRUE, !.incs = <<InvalidSegmentsReceived>>]
        ELSE LET ep == findEndpointLocked(p[pid], id)
             IN  IF ep = <<>>
                 THEN [none EXCEPT !.incs = IF transProto = UDPProtocolNumber
                                            THEN <<UnknownPortErrors>> ELSE <<>>]
                 ELSE [ret |-> TRUE,
                       calls |-> endpointsByNic_handlePacket(p[pid].endpoints[ep[1]], r, id, 0, 1,
                                                             ep[1]).calls,
                       handed |-> <<[group |-> ep[1], pkt |-> 0]>>,
                       incs |-> <<>>]

\* Mutant: the loop stops at the first raw endpoint.
transportDemuxer_deliverRawPacket_firstOnly(p, r, transProto) ==
    LET pid == protocolIDs(r.NetProto, transProto)
    IN  IF pid \notin DOMAIN p THEN [ret |-> FALSE, calls |-> <<>>]
        ELSE LET raw == p[pid].rawEndpoints
             IN  [ret |-> Len(raw) > 0,
                  calls |-> IF raw = <<>> THEN <<>>
                            ELSE <<call(raw[1], "RawHandlePacket", 0, <<>>, 0)>>]

transportDemuxer_deliverRawPacket(p, r, transProto) ==
    LET pid == protocolIDs(r.NetProto, transProto)
    IN  IF pid \notin DOMAIN p THEN [ret |-> FALSE, calls |-> <<>>]
        ELSE LET raw == p[pid].rawEndpoints
             IN  [ret |-> Len(raw) > 0,
                  calls |-> [k \in 1..Len(raw) |-> call(raw[k], "RawHandlePacket", 0, <<>>, 0)]]

transportDemuxer_deliverControlPacket(p, n, net, trans, id) ==
    LET pid == protocolIDs(net, trans)
    IN  IF pid \notin DOMAIN p THEN [ret |-> FALSE, calls |-> <<>>]
        ELSE LET ep == findEndpointLocked(p[pid], id)
             IN  IF ep = <<>> THEN [ret |-> FALSE, calls |-> <<>>]
                 ELSE [ret |-> TRUE,
                       calls |-> endpointsByNic_handleControlPacket(p[pid].endpoints[ep[1]], n, id,
                                                                    0, ep[1])]

\* <<>> is nil, else the one endpoint.
transportDemuxer_findTransportEndpoint(p, netProto, transProto, id, r) ==
    LET pid == protocolIDs(netProto, transProto)
    IN  IF pid \notin DOMAIN p THEN <<>>
        ELSE LET g == findEndpointLocked(p[pid], id)
             IN  IF g = <<>> THEN <<>>
                 ELSE LET epsByNic == p[pid].endpoints[g[1]]
                          nic == resolveNic(epsByNic, r.nic)
                      IN  IF nic = <<>> THEN <<>>
                          ELSE <<selectEndpoint(id, epsByNic.endpoints[nic[1]], epsByNic.seed)>>

-----------------------------------------------------------------------------
(* History.                                                                 *)

\* The (pair, id, nic) under which p holds a multiPortEndpoint.
Slots(p) ==
    UNION {UNION {{<<pid, id, nic>> : nic \in DOMAIN p[pid].endpoints[id].endpoints}
                  : id \in DOMAIN p[pid].endpoints}
           : pid \in DOMAIN p}

RECURSIVE sumOver(_, _)
sumOver(S, f) ==
    IF S = {} THEN 0
    ELSE LET x == CHOOSE y \in S : TRUE IN f[x] + sumOver(S \ {x}, f)

\* The number of registrations p holds: the members of all sets and raw lists.
Registrations(p) ==
    sumOver(Slots(p), [s \in Slots(p) |-> Len(p[s[1]].endpoints[s[2]].endpoints[s[3]].endpoints)])
    + sumOver(DOMAIN p, [pid \in DOMAIN p |-> Len(p[pid].rawEndpoints)])

\* created after a call that took the registry from p to p2 with reusePort.
Created(p, p2, reusePort) ==
    [s \in Slots(p2) |-> IF s \in Slots(p) THEN created[s] ELSE reusePort]

\* What selection reads of the set of slot s: the seed of its group and its members.
selectionState(p, s) ==
    IF s \in Slots(p)
    THEN <<p[s[1]].endpoints[s[2]].seed, p[s[1]].endpoints[s[2]].endpoints[s[3]].endpoints>>
    ELSE <<>>

\* affinity without the flows of the sets a call changed.
Forget(p, p2) ==
    [k \in {k2 \in DOMAIN affinity : selectionState(p, k2.slot) = selectionState(p2, k2.slot)}
       |-> affinity[k]]

-----------------------------------------------------------------------------
(* The actions: one per entry point of the demuxer.  The caller makes one   *)
(* call at a time; last holds the call and what it did until the caller    *)
(* takes the result (Return).                                              *)

NoCall == [op |-> "none"]

Route(netProto, nic, localAddress, remoteAddress) ==
    [NetProto |-> netProto, nic |-> nic,
     LocalAddress |-> localAddress, RemoteAddress |-> remoteAddress]

RegisterEndpoint(netProtos, transProto, id, ep, reusePort, bindToDevice, seeds) ==
    LET r == transportDemuxer_registerEndpoint(protocol, netProtos, transProto, id, ep,
                                               reusePort, bindToDevice, seeds)
    IN  /\ Registrations(protocol) + Len(netProtos) <= MaxRegistrations
        /\ protocol' = r.p
        /\ last' = [op |-> "registerEndpoint",
                    args |-> [netProtos |-> netProtos, transProto |-> transProto, id |-> id,
                              ep |-> ep, reusePort |-> reusePort, bindToDevice |-> bindToDevice],
                    ret |-> r.err, before |-> protocol]
        /\ created' = Created(protocol, r.p, reusePort)
        /\ affinity' = Forget(protocol, r.p)
        /\ UNCHANGED <<queuedProtocols, thread, mu>>

UnregisterEndpoint(netProtos, transProto, id, ep, bindToDevice) ==
    LET p2 == transportDemuxer_unregisterEndpoint(protocol, netProtos, transProto, id, ep,
                                                  bindToDevice)
    IN  /\ protocol' = p2
        /\ last' = [op |-> "unregisterEndpoint",
                    args |-> [netProtos |-> netProtos, transProto |-> transProto, id |-> id,
                              ep |-> ep, bindToDevice |-> bindToDevice],
                    before |-> protocol,
                    undo |-> IF last.op = "registerEndpoint" THEN <<last>> ELSE <<>>]
        /\ created' = Created(protocol, p2, FALSE)
        /\ affinity' = Forget(protocol, p2)
        /\ UNCHANGED <<queuedProtocols, thread, mu>>

RegisterRawEndpoint(netProto, transProto, ep) ==
    LET r == transportDemuxer_registerRawEndpoint(protocol, netProto, transProto, ep)
    IN  /\ Registrations(protocol) < MaxRegistrations
        /\ protocol' = r.p
        /\ last' = [op |-> "registerRawEndpoint",
                    args |-> [netProto |-> netProto, transProto |-> transProto, ep |-> ep],
                    ret |-> r.err, before |-> protocol]
        /\ UNCHANGED <<queuedProtocols, created, affinity, thread, mu>>

\* For a pair the demuxer does not hold the call panics: nothing changes.
UnregisterRawEndpoint(netProto, transProto, ep) ==
    LET known == ~unregisterRawEndpoint_panics(protocol, netProto, transProto)
    IN  /\ protocol' = IF known
                       THEN transportDemuxer_unregisterRawEndpoint(protocol, netProto, transProto, ep)
                       ELSE protocol
        /\ last' = [op |-> "unregisterRawEndpoint",
                    args |-> [netProto |-> netProto, transProto |-> transProto, ep |-> ep],
                    panic |-> ~known, before |-> protocol]
        /\ UNCHANGED <<queuedProtocols, created, affinity, thread, mu>>

\* The flows whose selection a delivery shows: one per call of a delivery that
\* selected (did not fan out).
Selected(pid, id, calls) ==
    IF isMulticastOrBroadcast(id.LocalAddress) THEN <<>>
    ELSE [k \in 1..Len(calls) |->
            [key |-> [slot |-> <<pid, calls[k].group, calls[k].nic>>, id |-> id],
             ep |-> calls[k].ep]]

\* The member affinity holds for the flow of selection sel, if any.
Prior(sel) ==
    IF sel # <<>> /\ sel[1].key \in DOMAIN affinity THEN <<affinity[sel[1].key]>> ELSE <<>>

\* deliverPacket, but for the history variable affinity.
DeliverPacketCall(r, transProto, id) ==
    LET record(d) ==
            [op |-> "deliverPacket",
             args |-> [r |-> r, transProto |-> transProto, id |-> id],
             ret |-> d.ret, calls |-> d.calls, handed |-> d.handed, incs |-> d.incs,
             prior |-> Prior(Selected(protocolIDs(r.NetProto, transProto), id, d.calls))]
    IN  /\ last' = record(transportDemuxer_deliverPacket(protocol, r, transProto, id))
        /\ UNCHANGED <<protocol, queuedProtocols, created, thread, mu>>

DeliverPacket(r, transProto, id) ==
    /\ DeliverPacketCall(r, transProto, id)
    /\ UNCHANGED affinity

\* deliverPacket, remembering in affinity the member it selected for the flow.
DeliverPacketTracked(r, transProto, id) ==
    LET remember(sel) == IF sel = <<>> THEN affinity ELSE store(affinity, sel[1].key, sel[1].ep)
    IN  /\ DeliverPacketCall(r, transProto, id)
        /\ affinity' = remember(Selected(protocolIDs(r.NetProto, transProto), id,
                                         last'.calls))

DeliverRawPacket(r, transProto) ==
    LET d == transportDemuxer_deliverRawPacket(protocol, r, transProto)
    IN  /\ last' = [op |-> "deliverRawPacket", args |-> [r |-> r, transProto |-> transProto],
                    ret |-> d.ret, calls |-> d.calls, incs |-> <<>>]
        /\ UNCHANGED <<protocol, queuedProtocols, created, affinity, thread, mu>>

DeliverControlPacket(n, net, trans, id) ==
    LET d == transportDemuxer_deliverControlPacket(protocol, n, net, trans, id)
    IN  /\ last' = [op |-> "deliverControlPacket",
                    args |-> [n |-> n, net |-> net, trans |-> trans, id |-> id],
                    ret |-> d.ret, calls |-> d.calls, incs |-> <<>>]
        /\ UNCHANGED <<protocol, queuedProtocols, created, affinity, thread, mu>>

FindTransportEndpoint(netProto, transProto, id, r) ==
    /\ last' = [op |-> "findTransportEndpoint",
                args |-> [netProto |-> netProto, transProto |-> transProto, id |-> id, r |-> r],
                ret |-> transportDemuxer_findTransportEndpoint(protocol, netProto, transProto, id, r)]
    /\ UNCHANGED <<protocol, queuedProtocols, created, affinity, thread, mu>>

\* The caller takes the result of its call.
Return ==
    /\ last.op # "none"
    /\ last' = NoCall
    /\ UNCHANGED <<protocol, queuedProtocols, created, affinity, thread, mu>>

-----------------------------------------------------------------------------
(* The stack the demuxer is built for, and the inputs of the calls.         *)

NetworkProtocols == {IPv4ProtocolNumber, IPv6ProtocolNumber}
TransportProtocols == {UDPProtocolNumber, TCPProtocolNumber, ICMPv4ProtocolNumber}

LocalA == <<10, 0, 0, 5>>
RemoteA == <<10, 0, 0, 9>>
Multicast == <<224, 0, 0, 1>>
LocalA6 == <<32, 1, 13, 184, 0, 0, 0, 0, 0, 0, 0, 0, 0, 0, 0, 5>>
RemoteA6 == <<32, 1, 13, 184, 0, 0, 0, 0, 0, 0, 0, 0, 0, 0, 0, 9>>
Multicast6 == <<255, 2, 0, 0, 0, 0, 0, 0, 0, 0, 0, 0, 0, 0, 0, 1>>

Endpoints == 1..NumEndpoints

\* The elements of a sequence.
Range(f) == {f[k] : k \in DOMAIN f}

\* Values rand.Uint32() may return.
SeedA == u32(0, 0)
SeedB == u32(4660, 22136)

\* newTransportDemuxer: a registry per pair of the stack's protocols; the pairs
\* of the transport protocols that implement queuedTransportProtocol are queued.
newTransportDemuxer_protocol(networkProtocols, transportProtocols) ==
    [pid \in {protocolIDs(n, t) : n \in networkProtocols, t \in transportProtocols}
       |-> [endpoints |-> <<>>, rawEndpoints |-> <<>>]]

newTransportDemuxer_queuedProtocols(networkProtocols, queued) ==
    {protocolIDs(n, t) : n \in networkProtocols, t \in queued}

\* The state after construction, the queued transport protocols being one of Q.
\* The goroutines that call the demuxer concurrently: the application binds
\* and closes sockets, the dispatcher of NIC 1 delivers the packets it receives.
Writers == {"app"}
Deliverers == {"nic1"}

\* A second application goroutine, for calls that race with those of the first.
SecondWriters == {"app2"}
Threads == Writers \cup SecondWriters \cup Deliverers

\* The value of mu for a lock that nobody holds.
NoThread == "none"

\* A goroutine that is not inside the demuxer.
IdleThread == [pc |-> "idle"]

InitWith(Q) ==
    /\ protocol = newTransportDemuxer_protocol(NetworkProtocols, TransportProtocols)
    /\ thread = [t \in Threads |-> IdleThread]
    /\ mu = [pid \in DOMAIN newTransportDemuxer_protocol(NetworkProtocols, TransportProtocols)
               |-> NoThread]
    /\ \E queued \in Q :
         queuedProtocols = newTransportDemuxer_queuedProtocols(NetworkProtocols, queued)
    /\ last = NoCall
    /\ created = <<>>
    /\ affinity = <<>>

Idle == last.op = "none"

\* The id and the route of a packet from remoteAddress:remotePort to
\* localAddress:localPort received on nic.
Inbound(netProto, nic, localPort, localAddress, remotePort, remoteAddress) ==
    [r |-> Route(netProto, nic, localAddress, remoteAddress),
     id |-> TransportEndpointID(localPort, localAddress, remotePort, remoteAddress)]

-----------------------------------------------------------------------------
(* Spec: matching and delivery for one pair.  Every (id, NIC) binding has   *)
(* its own UDP socket, which registers for IPv4 without port reuse, bound  *)
(* to any NIC or to NIC 1, under one of the ids a packet to LocalA:80 or   *)
(* to Multicast:80 can match; UDP and TCP packets from two remote ports    *)
(* arrive on NIC 1 or NIC 2 for a unicast, a multicast and the broadcast   *)
(* address.                                                                *)

ToUnicast == TransportEndpointID(80, LocalA, 1234, RemoteA)
ToMulticast == TransportEndpointID(80, Multicast, 1234, RemoteA)

MatchIDs == Range(probes(ToUnicast)) \cup Range(probes(ToMulticast))

\* The UniqueID of the socket that binds to (id, nic).
MatchSocket(id, nic) ==
    1 + nic + (IF id.RemotePort = 0 THEN 0 ELSE 2)
      + (CASE id.LocalAddress = <<>> -> 0 [] id.LocalAddress = LocalA -> 4 [] OTHER -> 8)

MatchPackets ==
    {Inbound(IPv4ProtocolNumber, nic, 80, la, rp, RemoteA) :
        nic \in {1, 2}, la \in {LocalA, Multicast, IPv4Broadcast}, rp \in {1234, 4321}}

Init == InitWith({{TCPProtocolNumber}})

Next ==
    \/ /\ Idle
       /\ \E id \in MatchIDs, nic \in {0, 1} :
            RegisterEndpoint(<<IPv4ProtocolNumber>>, UDPProtocolNumber, id, MatchSocket(id, nic),
                             FALSE, nic, <<SeedA>>)
    \/ /\ Idle
       /\ \E id \in MatchIDs, nic \in {0, 1} :
            UnregisterEndpoint(<<IPv4ProtocolNumber>>, UDPProtocolNumber, id, MatchSocket(id, nic), nic)
    \/ /\ Idle
       /\ \E t \in {UDPProtocolNumber, TCPProtocolNumber}, pk \in MatchPackets :
            DeliverPacket(pk.r, t, pk.id)
    \/ Return

Spec == Init /\ [][Next]_vars

-----------------------------------------------------------------------------
(* Properties of matching and delivery.                                     *)

\* The pair a deliverPacket call is for.
PairOf(c) == protocolIDs(c.args.r.NetProto, c.args.transProto)

\* The branch of deliverPacket a call with these arguments takes.
Branch(c) ==
    IF PairOf(c) \notin DOMAIN protocol THEN "unknown"
    ELSE IF c.args.transProto = UDPProtocolNumber
            /\ isMulticastOrBroadcast(c.args.id.LocalAddress) THEN "multicast"
    ELSE IF c.args.transProto = TCPProtocolNumber
            /\ (~isUnicast(c.args.r.LocalAddress) \/ ~isUnicast(c.args.r.RemoteAddress))
    THEN "rejected"
    ELSE "ordinary"

\* The four tiers of the precedence for an inbound id, most specific first.
Tier(id, k) ==
    CASE k = 1 -> id
      [] k = 2 -> TransportEndpointID(id.LocalPort, <<>>, id.RemotePort, id.RemoteAddress)
      [] k = 3 -> TransportEndpointID(id.LocalPort, id.LocalAddress, 0, <<>>)
      [] k = 4 -> TransportEndpointID(id.LocalPort, <<>>, 0, <<>>)

\* The tiers of a call's inbound id that have an entry in the call's registry.
Hits(c) == {k \in 1..4 : Tier(c.args.id, k) \in DOMAIN protocol[PairOf(c)].endpoints}

Min(S) == CHOOSE x \in S : \A y \in S : x <= y

\* C1: an ordinary delivery hands the packet to the group of the first tier, in
\* the order exact id, local address wildcarded, remote part wildcarded, only
\* the local port, that has an entry, and to no other group; without any entry
\* nothing is handed over.  So the listener on (ANY, P) gets the packet only if
\* no more specific tier has an entry, and (A, P) wins over it.
C1_FirstTierWins ==
    (last.op = "deliverPacket" /\ Branch(last) = "ordinary") =>
        IF Hits(last) = {}
        THEN last.handed = <<>> /\ last.calls = <<>> /\ last.ret = FALSE
        ELSE /\ Len(last.handed) = 1
             /\ last.handed[1].group = Tier(last.args.id, Min(Hits(last)))
             /\ \A k \in 1..Len(last.calls) :
                  last.calls[k].group = Tier(last.args.id, Min(Hits(last)))

\* A packet to LocalA:80 went to the listener on (LocalA, 80) although the
\* listener on (ANY, 80) is registered too.
C1_Witness ==
    /\ last.op = "deliverPacket" /\ Branch(last) = "ordinary"
    /\ Hits(last) = {3, 4}
    /\ Len(last.calls) = 1
    /\ last.calls[1].group = TransportEndpointID(80, LocalA, 0, <<>>)

\* Group g of the call's registry has a set for the receiving NIC or for NIC 0.
Resolves(c, g) ==
    {c.args.r.nic, 0} \cap DOMAIN protocol[PairOf(c)].endpoints[g].endpoints # {}

\* C10: a UDP packet to a multicast or broadcast address is handed to the group
\* of every tier that has an entry, once each, and every such group that has a
\* set for the receiving NIC (or for NIC 0) delivers it to an endpoint.
C10_AllTiers ==
    (last.op = "deliverPacket" /\ Branch(last) = "multicast") =>
        /\ {last.handed[k].group : k \in 1..Len(last.handed)}
             = {Tier(last.args.id, k) : k \in Hits(last)}
        /\ Len(last.handed) = Cardinality(Hits(last))
        /\ \A g \in {Tier(last.args.id, k) : k \in Hits(last)} :
             Resolves(last, g) => \E k \in 1..Len(last.calls) : last.calls[k].group = g

\* A multicast datagram reached both the endpoint of a flow-specific
\* registration and the endpoint of the wildcard listener.
C10_Witness ==
    /\ last.op = "deliverPacket" /\ Branch(last) = "multicast"
    /\ {1, 4} \subseteq Hits(last)
    /\ \E i, j \in 1..Len(last.calls) :
         /\ last.calls[i].group = last.args.id
         /\ last.calls[j].group = TransportEndpointID(80, <<>>, 0, <<>>)
         /\ last.calls[i].pkt # last.calls[j].pkt

-----------------------------------------------------------------------------
(* SpecReg: registration and unregistration for one pair.  UDP sockets      *)
(* register for IPv4 under the listening id (port 80 on any address) or    *)
(* under a connected id, bound to any NIC or to NIC 1, with or without     *)
(* port reuse.                                                             *)

Listener == TransportEndpointID(80, <<>>, 0, <<>>)
Connected == TransportEndpointID(80, LocalA, 1234, RemoteA)

RegIDs == {Listener, Connected}

InitReg == InitWith({{TCPProtocolNumber}})

NextReg ==
    \/ /\ Idle
       /\ \E id \in RegIDs, ep \in Endpoints, reuse \in BOOLEAN, nic \in {0, 1} :
            RegisterEndpoint(<<IPv4ProtocolNumber>>, UDPProtocolNumber, id, ep, reuse, nic,
                             <<SeedA>>)
    \/ /\ Idle
       /\ \E id \in RegIDs, ep \in Endpoints, nic \in {0, 1} :
            UnregisterEndpoint(<<IPv4ProtocolNumber>>, UDPProtocolNumber, id, ep, nic)
    \/ Return

SpecReg == InitReg /\ [][NextReg]_vars

-----------------------------------------------------------------------------
(* SpecDual: registration over lists of network protocols.  UDP sockets     *)
(* bound to any NIC register for IPv4, for IPv6, for both (a dual-stack    *)
(* socket), or for IPv4 and a protocol the stack does not have; a caller   *)
(* may unregister at once what it has just registered.                     *)

DualNets ==
    {<<IPv4ProtocolNumber>>, <<IPv6ProtocolNumber>>,
     <<IPv4ProtocolNumber, IPv6ProtocolNumber>>, <<IPv4ProtocolNumber, UnknownNetProto>>}

InitDual == InitWith({{TCPProtocolNumber}})

NextDual ==
    \/ /\ Idle
       /\ \E nets \in DualNets, id \in RegIDs, ep \in Endpoints, reuse \in BOOLEAN :
            RegisterEndpoint(nets, UDPProtocolNumber, id, ep, reuse, 0, <<SeedA, SeedA>>)
    \/ /\ Idle
       /\ \E nets \in DualNets, id \in RegIDs, ep \in Endpoints :
            UnregisterEndpoint(nets, UDPProtocolNumber, id, ep, 0)
    \/ /\ last.op = "registerEndpoint"
       /\ UnregisterEndpoint(last.args.netProtos, last.args.transProto, last.args.id,
                             last.args.ep, last.args.bindToDevice)
    \/ Return

SpecDual == InitDual /\ [][NextDual]_vars

-----------------------------------------------------------------------------
(* SpecAffinity: selection in a reuse group.  UDP sockets join and leave    *)
(* the reuse group of the listening id on any NIC, whose seed is one of two *)
(* values; the packets of two flows arrive on NIC 1 or NIC 2, and the      *)
(* member selected for a flow is remembered until the group changes.       *)

InitAffinity == InitWith({{TCPProtocolNumber}})

NextAffinity ==
    \/ /\ Idle
       /\ \E ep \in Endpoints, seed \in {SeedA, SeedB} :
            RegisterEndpoint(<<IPv4ProtocolNumber>>, UDPProtocolNumber, Listener, ep, TRUE, 0,
                             <<seed>>)
    \/ /\ Idle
       /\ \E ep \in Endpoints :
            UnregisterEndpoint(<<IPv4ProtocolNumber>>, UDPProtocolNumber, Listener, ep, 0)
    \/ /\ Idle
       /\ \E nic \in {1, 2}, rp \in {1234, 4321} :
            LET pk == Inbound(IPv4ProtocolNumber, nic, 80, LocalA, rp, RemoteA)
            IN  DeliverPacketTracked(pk.r, UDPProtocolNumber, pk.id)
    \/ Return

SpecAffinity == InitAffinity /\ [][NextAffinity]_vars

-----------------------------------------------------------------------------
(* SpecTCP: TCP segments.  TCP sockets listen on port 80 for IPv4 or for    *)
(* IPv6; segments arrive whose source and destination are a unicast        *)
(* address, the any-address, a multicast address or the broadcast address. *)

TCPPackets ==
    {Inbound(IPv4ProtocolNumber, 1, 80, la, 1234, ra) :
        la \in {LocalA, IPv4Any, IPv4Broadcast, Multicast},
        ra \in {RemoteA, IPv4Any, IPv4Broadcast, Multicast}}
    \cup
    {Inbound(IPv6ProtocolNumber, 1, 80, la, 1234, ra) :
        la \in {LocalA6, IPv6Any, Multicast6}, ra \in {RemoteA6, IPv6Any, Multicast6}}

InitTCP == InitWith({{TCPProtocolNumber}})

NextTCP ==
    \/ /\ Idle
       /\ \E n \in NetworkProtocols, ep \in Endpoints :
            RegisterEndpoint(<<n>>, TCPProtocolNumber, Listener, ep, FALSE, 0, <<SeedA>>)
    \/ /\ Idle
       /\ \E n \in NetworkProtocols, ep \in Endpoints :
            UnregisterEndpoint(<<n>>, TCPProtocolNumber, Listener, ep, 0)
    \/ /\ Idle
       /\ \E pk \in TCPPackets : DeliverPacket(pk.r, TCPProtocolNumber, pk.id)
    \/ Return

SpecTCP == InitTCP /\ [][NextTCP]_vars

-----------------------------------------------------------------------------
(* SpecUnknown: calls for pairs the demuxer was not built with.  Sockets    *)
(* and raw sockets register for IPv4 or for a network protocol the stack   *)
(* does not have, over UDP or over a transport protocol it does not have;  *)
(* packets and control packets arrive for the same pairs.                  *)

UnknownNets == {IPv4ProtocolNumber, UnknownNetProto}
UnknownTrans == {UDPProtocolNumber, TCPProtocolNumber, UnknownTransProto}

UnknownPackets ==
    {Inbound(n, 1, 80, la, 1234, ra) :
        n \in UnknownNets, la \in {LocalA, IPv4Broadcast}, ra \in {RemoteA, IPv4Any}}

InitUnknown == InitWith({{TCPProtocolNumber}})

NextUnknown ==
    \/ /\ Idle
       /\ \E n \in UnknownNets, t \in {UDPProtocolNumber, UnknownTransProto} :
            RegisterEndpoint(<<n>>, t, Listener, 1, FALSE, 0, <<SeedA>>)
    \/ /\ Idle
       /\ \E n \in UnknownNets, t \in {UDPProtocolNumber, UnknownTransProto} :
            UnregisterEndpoint(<<n>>, t, Listener, 1, 0)
    \/ /\ Idle
       /\ \E n \in UnknownNets, t \in {UDPProtocolNumber, UnknownTransProto} :
            RegisterRawEndpoint(n, t, 2)
    \/ /\ Idle
       /\ \E n \in UnknownNets, t \in {UDPProtocolNumber, UnknownTransProto} :
            UnregisterRawEndpoint(n, t, 2)
    \/ /\ Idle
       /\ \E pk \in UnknownPackets, t \in UnknownTrans : DeliverPacket(pk.r, t, pk.id)
    \/ /\ Idle
       /\ \E pk \in UnknownPackets, t \in UnknownTrans : DeliverRawPacket(pk.r, t)
    \/ /\ Idle
       /\ \E pk \in UnknownPackets, t \in UnknownTrans :
            DeliverControlPacket(pk.r.nic, pk.r.NetProto, t, pk.id)
    \/ Return

SpecUnknown == InitUnknown /\ [][NextUnknown]_vars

-----------------------------------------------------------------------------
(* Properties of registration.                                              *)

\* The (pair, id, nic) a registration call c addresses under network protocol n.
RegSlot(c, n) == <<protocolIDs(n, c.args.transProto), c.args.id, c.args.bindToDevice>>

\* The members of the set p holds under slot s, as the list the set keeps.
Members(p, s) == p[s[1]].endpoints[s[2]].endpoints[s[3]].endpoints

\* How often e is in the list h.
Count(h, e) == Cardinality({k \in 1..Len(h) : h[k] = e})

\* The last call registered for one pair under a (pair, id, nic) that already
\* had a set: the second of two registrations with identical (pair, id, nic).
SecondRegistration ==
    /\ last.op = "registerEndpoint"
    /\ Len(last.args.netProtos) = 1
    /\ RegSlot(last, last.args.netProtos[1]) \in Slots(last.before)

\* The second registration succeeded: the set has the members it had and the
\* new endpoint.
Joined(s) ==
    /\ last.ret = nil
    /\ s \in Slots(protocol)
    /\ \A e \in Endpoints :
         Count(Members(protocol, s), e)
           = Count(Members(last.before, s), e) + (IF e = last.args.ep THEN 1 ELSE 0)

\* The second registration failed with PortInUse and changed nothing.
Refused == last.ret = ErrPortInUse /\ protocol = last.before

\* C2 as stated: of two registrations with identical (pair, id, nic) the second
\* fails with PortInUse, the first remaining registered, if reuse is disabled on
\* either; both succeed if reuse is enabled on both.
C2_AsStated ==
    SecondRegistration =>
        LET s == RegSlot(last, last.args.netProtos[1])
        IN  IF created[s] /\ last.args.reusePort THEN Joined(s) ELSE Refused

\* C2: of two registrations with identical (pair, id, nic) the second fails with
\* PortInUse, the first remaining registered, if reuse is disabled on either or
\* the id has a remote port; both succeed if reuse is enabled on both and the
\* id has no remote port.
C2_ReuseOnBoth ==
    SecondRegistration =>
        LET s == RegSlot(last, last.args.netProtos[1])
        IN  IF created[s] /\ last.args.reusePort /\ last.args.id.RemotePort = 0
            THEN Joined(s) ELSE Refused

\* A second endpoint joined the listener's set, both having asked for reuse.
C2_Witness ==
    /\ SecondRegistration
    /\ last.args.id = Listener /\ last.args.reusePort
    /\ created[RegSlot(last, IPv4ProtocolNumber)]
    /\ last.ret = nil
    /\ Range(Members(protocol, RegSlot(last, IPv4ProtocolNumber))) = {1, 2}

\* C3: a set stored under an id with a remote port has exactly one member and
\* no reuse, and a registration under such an id for supported pairs, one of
\* whose (pair, id, nic) already has a set, fails with PortInUse whatever
\* reusePort the callers passed.
C3_RemotePortPinned ==
    /\ \A s \in Slots(protocol) :
         s[2].RemotePort # 0 =>
           /\ Len(Members(protocol, s)) = 1
           /\ ~protocol[s[1]].endpoints[s[2]].endpoints[s[3]].reuse
    /\ (/\ last.op = "registerEndpoint"
        /\ last.args.id.RemotePort # 0
        /\ \A n \in Range(last.args.netProtos) :
             protocolIDs(n, last.args.transProto) \in DOMAIN last.before
        /\ \E n \in Range(last.args.netProtos) : RegSlot(last, n) \in Slots(last.before))
       => last.ret = ErrPortInUse

\* A second socket was refused under the connected id although it and the
\* first socket both asked for reuse.
C3_Witness ==
    /\ last.op = "registerEndpoint"
    /\ last.args.id = Connected /\ last.args.reusePort
    /\ RegSlot(last, IPv4ProtocolNumber) \in Slots(last.before)
    /\ created[RegSlot(last, IPv4ProtocolNumber)]
    /\ last.ret = ErrPortInUse
    /\ Members(protocol, RegSlot(last, IPv4ProtocolNumber)) # <<last.args.ep>>

\* Registries p and q have the same content: the same ids, under each id the
\* same NICs, under each NIC the same members as often.
SameContent(p, q) ==
    /\ DOMAIN p = DOMAIN q
    /\ \A pid \in DOMAIN p : DOMAIN p[pid].endpoints = DOMAIN q[pid].endpoints
    /\ Slots(p) = Slots(q)
    /\ \A s \in Slots(p) : \A e \in Endpoints :
         Count(Members(p, s), e) = Count(Members(q, s), e)

\* C4: when registerEndpoint returns an error, every registry has the content
\* it had before the call: the registrations the call had made under the
\* earlier network protocols are undone.
C4_RolledBack ==
    (last.op = "registerEndpoint" /\ last.ret # nil) => SameContent(protocol, last.before)

\* A dual registration failed at its second protocol after it had registered
\* the endpoint under the first, where the (id, nic) was free.
C4_Witness ==
    /\ last.op = "registerEndpoint"
    /\ Len(last.args.netProtos) = 2
    /\ last.ret # nil
    /\ protocolIDs(last.args.netProtos[1], last.args.transProto) \in DOMAIN last.before
    /\ RegSlot(last, last.args.netProtos[1]) \notin Slots(last.before)
    /\ RegSlot(last, last.args.netProtos[1]) \notin Slots(protocol)

\* C5: every id that is a key of a registry has a group with at least one NIC
\* entry, and every NIC entry has a set with at least one member, after every
\* call, failed registrations included.
C5_NoEmptyEntry ==
    \A pid \in DOMAIN protocol : \A id \in DOMAIN protocol[pid].endpoints :
        /\ DOMAIN protocol[pid].endpoints[id].endpoints # {}
        /\ \A nic \in DOMAIN protocol[pid].endpoints[id].endpoints :
             Len(protocol[pid].endpoints[id].endpoints[nic].endpoints) >= 1

\* The only member of an id's only set was unregistered, and the id is no
\* longer a key of the registry.
C5_Witness ==
    /\ last.op = "unregisterEndpoint"
    /\ LET s == RegSlot(last, IPv4ProtocolNumber)
       IN  /\ s \in Slots(last.before)
           /\ Members(last.before, s) = <<last.args.ep>>
           /\ DOMAIN last.before[s[1]].endpoints[s[2]].endpoints = {s[3]}
           /\ s[2] \notin DOMAIN protocol[s[1]].endpoints

\* The inbound ids and receiving NICs the registry is observed with.
ObsIDs == Range(probes(Connected)) \cup Range(probes(TransportEndpointID(80, LocalA, 4321, RemoteA)))

\* What the best-match lookup gives in registry p: for every supported network
\* protocol, inbound id and receiving NIC the group found and the endpoint
\* selected.
Observe(p) ==
    [x \in NetworkProtocols \X ObsIDs \X {1, 2} |->
        IF protocolIDs(x[1], UDPProtocolNumber) \in DOMAIN p
        THEN <<findEndpointLocked(p[protocolIDs(x[1], UDPProtocolNumber)], x[2]),
               transportDemuxer_findTransportEndpoint(p, x[1], UDPProtocolNumber, x[2],
                                                      Route(x[1], x[3], x[2].LocalAddress,
                                                            x[2].RemoteAddress))>>
        ELSE <<>>]

\* The last call unregistered what the call before it, c, had registered.
RoundTrip == last.op = "unregisterEndpoint" /\ last.undo # <<>>

\* The supported pairs registration call c addressed.
RegPairs(c) ==
    {protocolIDs(n, c.args.transProto) : n \in Range(c.args.netProtos)} \cap DOMAIN c.before

\* After the round trip of registration c the lookup gives what it gave before
\* c; and if the id was no key before c, it is none now and another endpoint
\* can register under the (id, nic) without reuse.
Restored(c) ==
    /\ Observe(protocol) = Observe(c.before)
    /\ \A pid \in RegPairs(c) :
         c.args.id \notin DOMAIN c.before[pid].endpoints =>
           /\ c.args.id \notin DOMAIN protocol[pid].endpoints
           /\ \A f \in Endpoints \ {c.args.ep} :
                transportDemuxer_registerEndpoint(protocol, <<pid.network>>, pid.transport,
                                                  c.args.id, f, FALSE, c.args.bindToDevice,
                                                  <<SeedA>>).err = nil

NotYetRegistered(c) ==
    \A n \in Range(c.args.netProtos) :
        RegSlot(c, n) \in Slots(c.before) =>
           /\ Count(Members(c.before, RegSlot(c, n)), c.args.ep) = 0
           /\ \A e \in Endpoints : Count(Members(c.before, RegSlot(c, n)), e) <= 1

-----------------------------------------------------------------------------
(* Properties of selection, of TCP segments and of unknown pairs.           *)

NonUnicast(addr) ==
    \/ addr \in {IPv4Any, IPv6Any, IPv4Broadcast}
    \/ IsV4MulticastAddress(addr)
    \/ IsV6MulticastAddress(addr)

\* The pairs the demuxer was built with.
Supported == NetworkProtocols \X TransportProtocols

\* C8: deliverPacket for a TCP segment of a supported pair whose source or
\* destination is the any-address, the broadcast address or a multicast address
\* returns true, calls no endpoint, neither directly nor through the queue, and
\* increments InvalidSegmentsReceived once and no other counter.
C8_NonUnicastRejected ==
    (/\ last.op = "deliverPacket"
     /\ <<last.args.r.NetProto, last.args.transProto>> \in Supported
     /\ last.args.transProto = TCPProtocolNumber
     /\ (NonUnicast(last.args.r.RemoteAddress) \/ NonUnicast(last.args.r.LocalAddress)))
    => /\ last.ret = TRUE
       /\ last.calls = <<>>
       /\ last.incs = <<InvalidSegmentsReceived>>

\* A segment to 255.255.255.255:80 was dropped although a socket listens on
\* port 80 of any address.
C8_Witness ==
    /\ last.op = "deliverPacket"
    /\ last.args.transProto = TCPProtocolNumber
    /\ last.args.r.LocalAddress = IPv4Broadcast
    /\ last.args.r.RemoteAddress = RemoteA
    /\ Listener \in DOMAIN protocol[PairOf(last)].endpoints
    /\ last.ret = TRUE /\ last.calls = <<>>
    /\ last.incs = <<InvalidSegmentsReceived>>

\* The pair a delivery call is for.
DeliveryPair(c) ==
    IF c.op = "deliverControlPacket" THEN <<c.args.net, c.args.trans>>
    ELSE <<c.args.r.NetProto, c.args.transProto>>

\* C9: deliverPacket, deliverRawPacket and deliverControlPacket for a pair the
\* demuxer was not built with return false, call no endpoint and increment no
\* counter, whatever the transport protocol and the addresses are.
C9_UnknownPair ==
    (/\ last.op \in {"deliverPacket", "deliverRawPacket", "deliverControlPacket"}
     /\ DeliveryPair(last) \notin Supported)
    => /\ last.ret = FALSE
       /\ last.calls = <<>>
       /\ last.incs = <<>>

\* A UDP datagram to the broadcast address for a network protocol the stack
\* does not have was not delivered, although a socket and a raw socket are
\* registered for UDP over IPv4.
C9_Witness ==
    /\ last.op = "deliverPacket"
    /\ last.args.r.NetProto = UnknownNetProto
    /\ last.args.transProto = UDPProtocolNumber
    /\ last.args.r.LocalAddress = IPv4Broadcast
    /\ Listener \in DOMAIN protocol[protocolIDs(IPv4ProtocolNumber, UDPProtocolNumber)].endpoints
    /\ protocol[protocolIDs(IPv4ProtocolNumber, UDPProtocolNumber)].rawEndpoints # <<>>
    /\ last.ret = FALSE /\ last.calls = <<>> /\ last.incs = <<>>

-----------------------------------------------------------------------------
(* SpecFanout: delivery to reuse groups.  Sockets with port reuse bind      *)
(* port 53 over UDP on any address (on any NIC or on NIC 1), on 10.0.0.5   *)
(* or on a multicast address, and ping sockets share the identifier 53 on  *)
(* any address over ICMP; UDP may or may not be a queued protocol.  Packets *)
(* and control packets for a unicast, a multicast and the broadcast        *)
(* address arrive on NIC 1 or NIC 2.                                       *)

DNS == TransportEndpointID(53, <<>>, 0, <<>>)
DNSLocal == TransportEndpointID(53, LocalA, 0, <<>>)
DNSMulticast == TransportEndpointID(53, Multicast, 0, <<>>)

\* The bindings of the sockets: the transport protocol, the id and the NIC.
FanoutBindings ==
    {<<UDPProtocolNumber, DNS, 0>>, <<UDPProtocolNumber, DNS, 1>>,
     <<UDPProtocolNumber, DNSLocal, 0>>, <<UDPProtocolNumber, DNSMulticast, 0>>,
     <<ICMPv4ProtocolNumber, DNS, 0>>}

FanoutPackets ==
    {Inbound(IPv4ProtocolNumber, nic, 53, la, 1234, RemoteA) :
        nic \in {1, 2}, la \in {LocalA, Multicast, IPv4Broadcast}}

InitFanout == InitWith({{TCPProtocolNumber}, {TCPProtocolNumber, UDPProtocolNumber}})

NextFanout ==
    \/ /\ Idle
       /\ \E b \in FanoutBindings, ep \in Endpoints :
            RegisterEndpoint(<<IPv4ProtocolNumber>>, b[1], b[2], ep, TRUE, b[3], <<SeedB>>)
    \/ /\ Idle
       /\ \E b \in FanoutBindings, ep \in Endpoints :
            UnregisterEndpoint(<<IPv4ProtocolNumber>>, b[1], b[2], ep, b[3])
    \/ /\ Idle
       /\ \E t \in {UDPProtocolNumber, ICMPv4ProtocolNumber}, pk \in FanoutPackets :
            DeliverPacket(pk.r, t, pk.id)
    \/ /\ Idle
       /\ \E t \in {UDPProtocolNumber, ICMPv4ProtocolNumber}, pk \in FanoutPackets :
            DeliverControlPacket(pk.r.nic, pk.r.NetProto, t, pk.id)
    \/ Return

SpecFanout == InitFanout /\ [][NextFanout]_vars

-----------------------------------------------------------------------------
(* Properties of delivery to reuse groups.                                  *)

\* The members of the set group g resolves to for the receiving NIC of
\* delivery c (the NIC's own set, else the set of NIC 0): <<>> if g has no
\* entry or no such set.
Bound(c, g) ==
    LET eps == protocol[PairOf(c)].endpoints
    IN  IF g \notin DOMAIN eps THEN <<>>
        ELSE IF resolveNic(eps[g], c.args.r.nic) = <<>> THEN <<>>
        ELSE eps[g].endpoints[resolveNic(eps[g], c.args.r.nic)[1]].endpoints

\* Endpoints e1 and e2 both got the packet of the last delivery, in different
\* buffers.
BothReceive(e1, e2) ==
    \E i, j \in 1..Len(last.calls) :
        /\ last.calls[i].ep = e1
        /\ last.calls[j].ep = e2
        /\ last.calls[i].pkt # last.calls[j].pkt

\* C11 as stated: with E1 bound to ANY:53 and E2 bound to 10.0.0.5:53, a UDP
\* packet to port 53 of a multicast address reaches both, each in its own buffer.
C11_AsStated ==
    (/\ last.op = "deliverPacket" /\ Branch(last) = "multicast"
     /\ last.args.id.LocalPort = 53
     /\ IsV4MulticastAddress(last.args.id.LocalAddress))
    => \A e1, e2 \in Endpoints :
         (/\ e1 # e2
          /\ e1 \in Range(Bound(last, DNS))
          /\ e2 \in Range(Bound(last, DNSLocal)))
         => BothReceive(e1, e2)

\* C11: with E1 bound to ANY:53 and E2 bound to port 53 of the multicast or
\* broadcast address the packet is sent to, both get the packet, each in its
\* own buffer; no endpoint bound to another address, such as 10.0.0.5:53,
\* gets it.
C11_DestinationBound ==
    (/\ last.op = "deliverPacket" /\ Branch(last) = "multicast"
     /\ last.args.id.LocalPort = 53)
    => /\ \A e1, e2 \in Endpoints :
            (/\ e1 # e2
             /\ e1 \in Range(Bound(last, DNS))
             /\ e2 \in Range(Bound(last, Tier(last.args.id, 3))))
            => BothReceive(e1, e2)
       /\ \A k \in 1..Len(last.calls) :
            last.calls[k].group.LocalAddress \in {<<>>, last.args.id.LocalAddress}

\* A packet to 224.0.0.1:53 reached endpoint 1, bound to ANY:53, and endpoint
\* 2, bound to 224.0.0.1:53, while an endpoint is bound to 10.0.0.5:53.
C11_Witness ==
    /\ last.op = "deliverPacket" /\ Branch(last) = "multicast"
    /\ last.args.id.LocalAddress = Multicast
    /\ Bound(last, DNS) = <<1>>
    /\ Bound(last, DNSMulticast) = <<2>>
    /\ Bound(last, DNSLocal) # <<>>
    /\ BothReceive(1, 2)

\* The group the best-match lookup finds for delivery c: the first tier of the
\* precedence that has an entry.  Defined if Hits(c) is not empty.
BestMatch(c) == Tier(c.args.id, Min(Hits(c)))

\* C12 as stated: in the ordinary branch deliverPacket returns true exactly
\* when it delivered the packet to exactly one endpoint, a member of the set the
\* best-match group resolves to for the receiving NIC (else NIC 0); when it
\* returns false no endpoint was called, and UnknownPortErrors was incremented
\* if and only if the transport protocol is UDP.
C12_AsStated ==
    (last.op = "deliverPacket" /\ Branch(last) = "ordinary") =>
        /\ last.ret = (Len(last.calls) = 1)
        /\ last.ret => /\ Hits(last) # {}
                       /\ last.calls[1].group = BestMatch(last)
                       /\ last.calls[1].ep \in Range(Bound(last, BestMatch(last)))
        /\ ~last.ret => /\ last.calls = <<>>
                        /\ last.incs = IF last.args.transProto = UDPProtocolNumber
                                       THEN <<UnknownPortErrors>> ELSE <<>>

\* C13 as stated: in the UDP multicast and broadcast branch deliverPacket
\* returns true only if at least one endpoint got the packet; if none did (no
\* group matched, or no matched group has a set for the receiving NIC or for
\* NIC 0) it increments UnknownPortErrors and returns false.
C13_AsStated ==
    (last.op = "deliverPacket" /\ Branch(last) = "multicast") =>
        IF last.calls = <<>>
        THEN last.ret = FALSE /\ last.incs = <<UnknownPortErrors>>
        ELSE last.ret = TRUE /\ last.incs = <<>>

\* The calls delivery c made on the members of group g, in order.
CallsOf(c, g) ==
    LET OfGroup(x) == x.group = g
    IN  SelectSeq(c.calls, OfGroup)

\* The endpoints called by the calls s, in order.
Recipients(s) == [k \in 1..Len(s) |-> s[k].ep]

\* The groups delivery c handed the packet to.
HandedGroups(c) == {c.handed[k].group : k \in 1..Len(c.handed)}

\* The member the hash selection picks for delivery c in the set group g
\* resolves to.  Defined if Resolves(c, g).
HashSelected(c, g) ==
    LET epsByNic == protocol[PairOf(c)].endpoints[g]
    IN  selectEndpoint(c.args.id, epsByNic.endpoints[resolveNic(epsByNic, c.args.r.nic)[1]],
                       epsByNic.seed)

\* C14 as stated: in the UDP multicast and broadcast branch every matched group
\* that resolves for the receiving NIC (else NIC 0) contributes exactly one
\* recipient, the member the hash selection picks.
C14_AsStated ==
    (last.op = "deliverPacket" /\ Branch(last) = "multicast") =>
        \A g \in HandedGroups(last) :
            Resolves(last, g) => Recipients(CallsOf(last, g)) = <<HashSelected(last, g)>>

\* C14: in the UDP multicast and broadcast branch every matched group is
\* resolved against the receiving NIC, else NIC 0, and contributes all the
\* members of the set it resolves to, each once per registration and in the
\* order the set keeps them, without hash selection; a group that has neither
\* set contributes no recipient.
C14_AllMembers ==
    (last.op = "deliverPacket" /\ Branch(last) = "multicast") =>
        /\ \A g \in HandedGroups(last) : Recipients(CallsOf(last, g)) = Bound(last, g)
        /\ \A k \in 1..Len(last.calls) :
             /\ last.calls[k].group \in HandedGroups(last)
             /\ <<last.calls[k].nic>>
                  = resolveNic(protocol[PairOf(last)].endpoints[last.calls[k].group],
                               last.args.r.nic)

\* A multicast datagram received on NIC 2 reached both members of the set of
\* 224.0.0.1:53 on NIC 0, and no member of the group of ANY:53, which is bound
\* to NIC 1 only.
C14_Witness ==
    /\ last.op = "deliverPacket" /\ Branch(last) = "multicast"
    /\ last.args.r.nic = 2
    /\ Recipients(CallsOf(last, DNSMulticast)) = <<1, 2>>
    /\ DNS \in HandedGroups(last) /\ ~Resolves(last, DNS)

\* C15: a delivery to a broadcast or multicast local address reaches every
\* member of the set each group it is handed to resolves to for the receiving
\* NIC; a delivery to any other local address reaches exactly one member of
\* that set, the one the hash selection picks.
C15_FanOutOrSelect ==
    last.op = "deliverPacket" =>
        \A g \in HandedGroups(last) :
            Resolves(last, g) =>
                IF isMulticastOrBroadcast(last.args.id.LocalAddress)
                THEN \A e \in Endpoints :
                        Count(Recipients(CallsOf(last, g)), e) = Count(Bound(last, g), e)
                ELSE /\ Len(CallsOf(last, g)) = 1
                     /\ CallsOf(last, g)[1].ep = HashSelected(last, g)

\* A packet that is neither UDP nor TCP, sent to the broadcast address, reached
\* both members of a set.
C15_Witness ==
    /\ last.op = "deliverPacket" /\ Branch(last) = "ordinary"
    /\ last.args.id.LocalAddress = IPv4Broadcast
    /\ Recipients(last.calls) = <<1, 2>>

\* A packet to a unicast address reached the second of the two members of a
\* set, and no other.
C15_WitnessSelect ==
    /\ last.op = "deliverPacket" /\ Branch(last) = "ordinary"
    /\ last.args.id.LocalAddress = LocalA
    /\ Hits(last) # {}
    /\ Len(Bound(last, BestMatch(last))) = 2
    /\ Len(last.calls) = 1
    /\ last.calls[1].ep = Bound(last, BestMatch(last))[2]

\* The buffers of the calls s.
Buffers(s) == {s[k].pkt : k \in 1..Len(s)}

\* No two of the calls s were handed the same buffer.
SingleOwner(s) == \A i, j \in 1..Len(s) : s[i].pkt = s[j].pkt => i = j

\* C16: in a delivery no buffer is handed to two recipients.  Of the matched
\* groups every one but the last is handed a duplicate and the last the
\* original buffer; of the members of a set every one but the last is handed a
\* duplicate of the buffer the set was given, and the last that buffer itself.
C16_SingleOwner ==
    last.op = "deliverPacket" =>
        /\ SingleOwner(last.calls)
        /\ SingleOwner(last.handed)
        /\ \A k \in 1..Len(last.handed) : (last.handed[k].pkt = 0) = (k = Len(last.handed))
        /\ \A k \in 1..Len(last.handed) :
             LET s == CallsOf(last, last.handed[k].group)
             IN  \A i \in 1..Len(s) :
                   IF i = Len(s) THEN s[i].pkt = last.handed[k].pkt
                   ELSE s[i].pkt \notin Buffers(last.handed)

\* A broadcast datagram went to two groups, the first of which has two members:
\* three recipients, the last of which got the original buffer.
C16_Witness ==
    /\ last.op = "deliverPacket" /\ Branch(last) = "multicast"
    /\ Len(last.handed) = 2
    /\ Len(CallsOf(last, last.handed[1].group)) = 2
    /\ Len(last.calls) = 3
    /\ last.calls[3].pkt = 0

\* C19: every delivery deliverPacket makes for a pair that was declared queued
\* when the demuxer was built goes to the queue callback (QueuePacket) with the
\* endpoint and the buffer, and never to the endpoint's HandlePacket; for a
\* pair that is not queued every delivery is the endpoint's HandlePacket.
C19_QueuedOrDirect ==
    last.op = "deliverPacket" =>
        \A k \in 1..Len(last.calls) :
            last.calls[k].method
              = IF PairOf(last) \in queuedProtocols THEN "QueuePacket" ELSE "HandlePacket"

\* UDP being queued, a multicast datagram was queued for both members of a set.
C19_Witness ==
    /\ last.op = "deliverPacket" /\ Branch(last) = "multicast"
    /\ PairOf(last) \in queuedProtocols
    /\ Len(last.calls) = 2
    /\ Recipients(last.calls) = <<1, 2>>
    /\ \A k \in 1..2 : last.calls[k].method = "QueuePacket"

\* UDP being queued, a packet of a transport protocol that is not was handed to
\* the endpoint directly.
C19_WitnessDirect ==
    /\ last.op = "deliverPacket"
    /\ protocolIDs(IPv4ProtocolNumber, UDPProtocolNumber) \in queuedProtocols
    /\ PairOf(last) \notin queuedProtocols
    /\ Len(last.calls) = 1
    /\ last.calls[1].method = "HandlePacket"

-----------------------------------------------------------------------------
(* SpecRaw: raw sockets.  Raw sockets open and close for UDP or ICMP over   *)
(* IPv4 and for UDP over IPv6, and UDP sockets bind port 80; packets for   *)
(* two ports and for unicast and broadcast addresses are offered to the    *)
(* raw sockets.                                                            *)

RawPairs ==
    {<<IPv4ProtocolNumber, UDPProtocolNumber>>, <<IPv4ProtocolNumber, ICMPv4ProtocolNumber>>,
     <<IPv6ProtocolNumber, UDPProtocolNumber>>}

RawPackets ==
    {Inbound(IPv4ProtocolNumber, 1, lp, la, 1234, RemoteA) :
        lp \in {53, 80}, la \in {LocalA, IPv4Broadcast}}
    \cup {Inbound(IPv6ProtocolNumber, 1, 80, LocalA6, 1234, RemoteA6)}

InitRaw == InitWith({{TCPProtocolNumber}})

NextRaw ==
    \/ /\ Idle
       /\ \E ep \in Endpoints :
            RegisterEndpoint(<<IPv4ProtocolNumber>>, UDPProtocolNumber, Listener, ep, TRUE, 0,
                             <<SeedA>>)
    \/ /\ Idle
       /\ \E pair \in RawPairs, ep \in Endpoints : RegisterRawEndpoint(pair[1], pair[2], ep)
    \/ /\ Idle
       /\ \E pair \in RawPairs, ep \in Endpoints : UnregisterRawEndpoint(pair[1], pair[2], ep)
    \/ /\ Idle
       /\ \E t \in {UDPProtocolNumber, ICMPv4ProtocolNumber}, pk \in RawPackets :
            DeliverRawPacket(pk.r, t)
    \/ Return

SpecRaw == InitRaw /\ [][NextRaw]_vars

\* The raw endpoints registered for the pair of delivery c, as the list the
\* registry keeps; none for a pair the demuxer was not built with.
RawEndpoints(c) ==
    IF PairOf(c) \in DOMAIN protocol THEN protocol[PairOf(c)].rawEndpoints ELSE <<>>

\* C17: deliverRawPacket calls HandlePacket on every raw endpoint registered
\* for the packet's pair, once per registration, whatever the packet's
\* addresses and ports are, and on nothing else; it returns true if and only
\* if a raw endpoint is registered for the pair.
C17_AllRawEndpoints ==
    last.op = "deliverRawPacket" =>
        /\ Recipients(last.calls) = RawEndpoints(last)
        /\ \A k \in 1..Len(last.calls) : last.calls[k].method = "RawHandlePacket"
        /\ last.ret = (RawEndpoints(last) # <<>>)

\* A UDP packet to the broadcast address and port 53 was handed to the two raw
\* sockets open for UDP over IPv4, and not to the socket bound to port 80.
C17_Witness ==
    /\ last.op = "deliverRawPacket"
    /\ last.args.r.LocalAddress = IPv4Broadcast
    /\ Listener \in DOMAIN protocol[PairOf(last)].endpoints
    /\ Len(last.calls) = 2
    /\ {last.calls[1].ep, last.calls[2].ep} = {1, 2}
    /\ last.ret = TRUE

\* A UDP packet was handed to the raw socket open for UDP and not to the one
\* open for ICMP.
C17_WitnessPair ==
    /\ last.op = "deliverRawPacket"
    /\ last.args.transProto = UDPProtocolNumber
    /\ protocol[protocolIDs(IPv4ProtocolNumber, ICMPv4ProtocolNumber)].rawEndpoints = <<2>>
    /\ Recipients(last.calls) = <<1>>

\* The tiers of the id of control delivery c that have an entry in the
\* registry of its pair.
ControlHits(c) ==
    {k \in 1..4 :
        Tier(c.args.id, k) \in DOMAIN protocol[protocolIDs(c.args.net, c.args.trans)].endpoints}

\* The member the hash selection picks for control delivery c in the set its
\* best-match group resolves to for NIC n, else NIC 0: <<>> if there is no
\* group or no such set.
ControlTarget(c) ==
    IF ControlHits(c) = {} THEN <<>>
    ELSE LET epsByNic == protocol[protocolIDs(c.args.net, c.args.trans)]
                             .endpoints[Tier(c.args.id, Min(ControlHits(c)))]
         IN  IF resolveNic(epsByNic, c.args.n) = <<>> THEN <<>>
             ELSE <<selectEndpoint(c.args.id,
                                   epsByNic.endpoints[resolveNic(epsByNic, c.args.n)[1]],
                                   epsByNic.seed)>>

\* C18 as stated: deliverControlPacket finds its target as the unicast branch
\* of deliverPacket does (best-match group, the set of the receiving NIC else of
\* NIC 0, hash selection), whatever the addresses and the transport protocol
\* are, and changes no counter; it returns true if and only if there is a
\* target, and then calls HandleControlPacket on the target and on nothing else.
C18_AsStated ==
    (/\ last.op = "deliverControlPacket"
     /\ protocolIDs(last.args.net, last.args.trans) \in DOMAIN protocol)
    => /\ last.incs = <<>>
       /\ last.ret = (ControlTarget(last) # <<>>)
       /\ Recipients(last.calls) = ControlTarget(last)
       /\ \A k \in 1..Len(last.calls) : last.calls[k].method = "HandleControlPacket"

-----------------------------------------------------------------------------
(* Properties of registration for a pair the demuxer was not built with.    *)

\* C20: registerEndpoint for a network and transport protocol pair the demuxer
\* was not built with returns ErrUnknownProtocol, registerRawEndpoint for such
\* a pair returns ErrNotSupported, and neither changes any endpoint map or raw
\* list.
C20_UnsupportedPair ==
    /\ (/\ last.op = "registerEndpoint"
        /\ <<last.args.netProtos[1], last.args.transProto>> \notin Supported)
       => (last.ret = ErrUnknownProtocol /\ protocol = last.before)
    /\ (/\ last.op = "registerRawEndpoint"
        /\ <<last.args.netProto, last.args.transProto>> \notin Supported)
       => (last.ret = ErrNotSupported /\ protocol = last.before)

\* A raw socket for a transport protocol the stack does not have was refused
\* with ErrNotSupported, a socket and a raw socket being registered for UDP.
C20_Witness ==
    /\ last.op = "registerRawEndpoint"
    /\ last.args.netProto = IPv4ProtocolNumber
    /\ last.args.transProto = UnknownTransProto
    /\ last.ret = ErrNotSupported
    /\ Registrations(protocol) = 2
    /\ protocol = last.before

\* A socket for a network protocol the stack does not have was refused with
\* ErrUnknownProtocol.
C20_WitnessEndpoint ==
    /\ last.op = "registerEndpoint"
    /\ last.args.netProtos = <<UnknownNetProto>>
    /\ last.ret = ErrUnknownProtocol
    /\ Registrations(protocol) = 2
    /\ protocol = last.before

\* C21: unregisterRawEndpoint for a pair the demuxer was not built with panics,
\* and for a pair it was built with it returns; unregisterEndpoint for a pair
\* the demuxer was not built with returns without a panic.  Neither changes
\* anything for such a pair.
C21_FatalOrSkipped ==
    /\ last.op = "unregisterRawEndpoint" =>
         /\ last.panic = (<<last.args.netProto, last.args.transProto>> \notin Supported)
         /\ last.panic => protocol = last.before
    /\ (/\ last.op = "unregisterEndpoint"
        /\ <<last.args.netProtos[1], last.args.transProto>> \notin Supported)
       => ("panic" \notin DOMAIN last /\ protocol = last.before)

\* Closing a raw socket for a network protocol the stack does not have
\* panicked, a raw socket being open for UDP over IPv4.
C21_Witness ==
    /\ last.op = "unregisterRawEndpoint"
    /\ last.args.netProto = UnknownNetProto
    /\ last.panic
    /\ protocol[protocolIDs(IPv4ProtocolNumber, UDPProtocolNumber)].rawEndpoints # <<>>

\* Unregistering a socket for a transport protocol the stack does not have
\* returned, the same socket being registered for UDP.
C21_WitnessSkipped ==
    /\ last.op = "unregisterEndpoint"
    /\ last.args.transProto = UnknownTransProto
    /\ "panic" \notin DOMAIN last
    /\ Listener \in DOMAIN protocol[protocolIDs(IPv4ProtocolNumber, UDPProtocolNumber)].endpoints

-----------------------------------------------------------------------------
(* SpecGroup: the sets of one group.  UDP sockets with port reuse bind port *)
(* 53 on any NIC or on NIC 1, the random seed offered to a new group being *)
(* one of two values; sockets are unregistered for IPv4, for a network     *)
(* protocol the stack does not have or for both, under the bound id or     *)
(* under one nothing is bound to; packets and control packets to           *)
(* 10.0.0.5:53 arrive on NIC 1 or NIC 2, and the endpoint for them is      *)
(* looked up.                                                              *)

GroupNets ==
    {<<IPv4ProtocolNumber>>, <<UnknownNetProto>>, <<UnknownNetProto, IPv4ProtocolNumber>>}

GroupPackets == {Inbound(IPv4ProtocolNumber, nic, 53, LocalA, 1234, RemoteA) : nic \in {1, 2}}

InitGroup == InitWith({{TCPProtocolNumber}})

NextGroup ==
    \/ /\ Idle
       /\ \E ep \in Endpoints, nic \in {0, 1}, seed \in {SeedA, SeedB} :
            RegisterEndpoint(<<IPv4ProtocolNumber>>, UDPProtocolNumber, DNS, ep, TRUE, nic,
                             <<seed>>)
    \/ /\ Idle
       /\ \E nets \in GroupNets, id \in {DNS, DNSLocal}, ep \in Endpoints, nic \in {0, 1} :
            UnregisterEndpoint(nets, UDPProtocolNumber, id, ep, nic)
    \/ /\ Idle
       /\ \E pk \in GroupPackets : DeliverPacket(pk.r, UDPProtocolNumber, pk.id)
    \/ /\ Idle
       /\ \E pk \in GroupPackets :
            DeliverControlPacket(pk.r.nic, pk.r.NetProto, UDPProtocolNumber, pk.id)
    \/ /\ Idle
       /\ \E pk \in GroupPackets :
            FindTransportEndpoint(pk.r.NetProto, UDPProtocolNumber, pk.id, pk.r)
    \/ Return

SpecGroup == InitGroup /\ [][NextGroup]_vars

-----------------------------------------------------------------------------
(* Properties of the sets of a group.                                       *)

\* The (pair, id, nic) an unregistration call c addresses under the network
\* protocols of its list that the demuxer has.
UnregSlots(c) ==
    {s \in {RegSlot(c, c.args.netProtos[k]) : k \in 1..Len(c.args.netProtos)} :
        s[1] \in DOMAIN protocol}

\* C22: unregisterEndpoint returns and changes no registry where a listed
\* protocol is not supported, the id has no entry, the NIC has no set under
\* the id or the endpoint is not a member of the set.  Where the endpoint is
\* a member one registration of it is removed, every other member stays
\* registered and no other set changes.
C22_BestEffort ==
    last.op = "unregisterEndpoint" =>
        /\ DOMAIN protocol = DOMAIN last.before
        /\ \A s \in Slots(last.before) :
             IF s \in UnregSlots(last) /\ last.args.ep \in Range(Members(last.before, s))
             THEN \A e \in Endpoints :
                    Count(IF s \in Slots(protocol) THEN Members(protocol, s) ELSE <<>>, e)
                      = Count(Members(last.before, s), e) - (IF e = last.args.ep THEN 1 ELSE 0)
             ELSE s \in Slots(protocol) /\ Members(protocol, s) = Members(last.before, s)
        /\ Slots(protocol) \subseteq Slots(last.before)
        /\ (\A s \in UnregSlots(last) :
              s \notin Slots(last.before) \/ last.args.ep \notin Range(Members(last.before, s)))
           => protocol = last.before
        /\ \A pid \in DOMAIN protocol :
             protocol[pid].rawEndpoints = last.before[pid].rawEndpoints

\* Endpoint 1 was unregistered from the set of port 53 on NIC 1 under a list
\* that starts with a protocol the stack does not have; endpoint 2 is still a
\* member of the set.
C22_Witness ==
    /\ last.op = "unregisterEndpoint"
    /\ last.args.netProtos = <<UnknownNetProto, IPv4ProtocolNumber>>
    /\ last.args.ep = 1 /\ last.args.bindToDevice = 1
    /\ RegSlot(last, IPv4ProtocolNumber) \in Slots(last.before) \cap Slots(protocol)
    /\ 1 \in Range(Members(last.before, RegSlot(last, IPv4ProtocolNumber)))
    /\ Members(protocol, RegSlot(last, IPv4ProtocolNumber)) = <<2>>

\* Unregistering endpoint 2, which is not a member of the set of port 53 on
\* NIC 0, changed nothing.
C22_WitnessNotMember ==
    /\ last.op = "unregisterEndpoint"
    /\ last.args.netProtos = <<IPv4ProtocolNumber>>
    /\ last.args.ep = 2 /\ last.args.bindToDevice = 0
    /\ RegSlot(last, IPv4ProtocolNumber) \in Slots(last.before)
    /\ 2 \notin Range(Members(last.before, RegSlot(last, IPv4ProtocolNumber)))
    /\ protocol = last.before

\* The pair and the receiving NIC of a lookup call c: a deliverPacket, a
\* deliverControlPacket or a findTransportEndpoint.
CallPair(c) ==
    CASE c.op = "deliverControlPacket" -> protocolIDs(c.args.net, c.args.trans)
      [] c.op = "findTransportEndpoint" -> protocolIDs(c.args.netProto, c.args.transProto)
      [] OTHER -> protocolIDs(c.args.r.NetProto, c.args.transProto)

CallNic(c) == IF c.op = "deliverControlPacket" THEN c.args.n ELSE c.args.r.nic

\* The tiers of the id of lookup call c that have an entry.
CallHits(c) == {k \in 1..4 : Tier(c.args.id, k) \in DOMAIN protocol[CallPair(c)].endpoints}

\* The group the best-match lookup of call c finds.  Defined if CallHits(c)
\* is not empty.
CallGroup(c) == protocol[CallPair(c)].endpoints[Tier(c.args.id, Min(CallHits(c)))]

\* The NIC whose set the claim names for call c: the receiving NIC if the
\* group has a set for it, else NIC 0 if it has one for that, else none.
ClaimedNic(c) ==
    IF CallNic(c) \in DOMAIN CallGroup(c).endpoints THEN <<CallNic(c)>>
    ELSE IF 0 \in DOMAIN CallGroup(c).endpoints THEN <<0>>
    ELSE <<>>

\* C23: deliverPacket with a unicast local address, deliverControlPacket and
\* findTransportEndpoint take their endpoint from the set the best-match group
\* has for the receiving NIC if there is one, else from its set for NIC 0, and
\* reach no endpoint if the group has neither.
C23_SpecificNicFirst ==
    (/\ last.op \in {"deliverPacket", "deliverControlPacket", "findTransportEndpoint"}
     /\ CallPair(last) \in DOMAIN protocol
     /\ last.op = "deliverPacket" => Branch(last) = "ordinary"
     /\ CallHits(last) # {})
    => IF last.op = "findTransportEndpoint"
       THEN IF ClaimedNic(last) = <<>> THEN last.ret = <<>>
            ELSE /\ Len(last.ret) = 1
                 /\ last.ret[1] \in Range(CallGroup(last).endpoints[ClaimedNic(last)[1]].endpoints)
                 /\ last.ret[1] = selectEndpoint(last.args.id,
                                                 CallGroup(last).endpoints[ClaimedNic(last)[1]],
                                                 CallGroup(last).seed)
       ELSE IF ClaimedNic(last) = <<>> THEN last.calls = <<>>
            ELSE /\ last.calls # <<>>
                 /\ \A k \in 1..Len(last.calls) :
                      /\ last.calls[k].nic = ClaimedNic(last)[1]
                      /\ last.calls[k].ep
                           \in Range(CallGroup(last).endpoints[ClaimedNic(last)[1]].endpoints)

\* Endpoint 1 being bound to port 53 on any NIC and endpoint 2 on NIC 1, the
\* lookup for a packet received on NIC 1 found endpoint 2.
C23_Witness ==
    /\ last.op = "findTransportEndpoint"
    /\ last.args.r.nic = 1
    /\ CallHits(last) # {}
    /\ DOMAIN CallGroup(last).endpoints = {0, 1}
    /\ CallGroup(last).endpoints[0].endpoints = <<1>>
    /\ CallGroup(last).endpoints[1].endpoints = <<2>>
    /\ last.ret = <<2>>

\* With the same bindings a packet received on NIC 2 went to endpoint 1.
C23_WitnessFallback ==
    /\ last.op = "deliverPacket"
    /\ last.args.r.nic = 2
    /\ CallHits(last) # {}
    /\ DOMAIN CallGroup(last).endpoints = {0, 1}
    /\ CallGroup(last).endpoints[0].endpoints = <<1>>
    /\ CallGroup(last).endpoints[1].endpoints = <<2>>
    /\ Recipients(last.calls) = <<1>>

\* C25: the seed of a group that is in the registry before and after a step is
\* the same after the step as before it, whatever the step registers or
\* unregisters under the group's id; a seed is set only in the step that
\* creates the group.
C25_SeedFixed ==
    [][\A pid \in DOMAIN protocol :
         \A id \in (DOMAIN protocol[pid].endpoints) \cap (DOMAIN protocol'[pid].endpoints) :
            protocol'[pid].endpoints[id].seed = protocol[pid].endpoints[id].seed]_vars

\* A registration added the set of NIC 1 to the group of port 53, which was
\* created with the second seed and has it still.
C25_Witness ==
    /\ last.op = "registerEndpoint" /\ last.ret = nil
    /\ last.args.bindToDevice = 1
    /\ RegSlot(last, IPv4ProtocolNumber) \notin Slots(last.before)
    /\ DNS \in DOMAIN last.before[protocolIDs(IPv4ProtocolNumber, UDPProtocolNumber)].endpoints
    /\ last.before[protocolIDs(IPv4ProtocolNumber, UDPProtocolNumber)].endpoints[DNS].seed = SeedB
    /\ protocol[protocolIDs(IPv4ProtocolNumber, UDPProtocolNumber)].endpoints[DNS].seed = SeedB

-----------------------------------------------------------------------------
(* SpecHeap: the member order of one set.  UDP sockets with port reuse bind *)
(* port 53 on any NIC and close again, in any order, one more socket than  *)
(* in the other specifications; packets of two flows to 10.0.0.5:53 arrive *)
(* on NIC 1.                                                               *)

HeapEndpoints == 1..(NumEndpoints + 1)

InitHeap == InitWith({{TCPProtocolNumber}})

NextHeap ==
    \/ /\ Idle
       /\ \E ep \in HeapEndpoints :
            RegisterEndpoint(<<IPv4ProtocolNumber>>, UDPProtocolNumber, DNS, ep, TRUE, 0, <<SeedB>>)
    \/ /\ Idle
       /\ \E ep \in HeapEndpoints :
            UnregisterEndpoint(<<IPv4ProtocolNumber>>, UDPProtocolNumber, DNS, ep, 0)
    \/ /\ Idle
       /\ \E rp \in {1234, 80} :
            LET pk == Inbound(IPv4ProtocolNumber, 1, 53, LocalA, rp, RemoteA)
            IN  DeliverPacket(pk.r, UDPProtocolNumber, pk.id)
    \/ Return

SpecHeap == InitHeap /\ [][NextHeap]_vars

\* The members of the list h are in ascending order of UniqueID.
Ascending(h) == \A i, j \in 1..Len(h) : i < j => h[i] <= h[j]

\* C24 as stated: the member order of a set is a function of the members'
\* UniqueIDs alone, whatever the order of the registrations and removals was.
\* Sockets that register in ascending order of UniqueID are kept in that
\* order, so the claim says that every set of distinct sockets is in ascending
\* order.
Distinct(h) == \A i, j \in 1..Len(h) : i # j => h[i] # h[j]

C24_AsStated ==
    \A s \in Slots(protocol) :
       Distinct(Members(protocol, s)) => Ascending(Members(protocol, s))

\* The index a delivery selected in a set of three members is not the index of
\* the selected member in ascending order: the same sockets registered in
\* ascending order would have had another member selected.
C24_SelectionDiffers ==
    /\ last.op = "deliverPacket"
    /\ Len(last.calls) = 1
    /\ LET h == Bound(last, DNS)
       IN  /\ {h[k] : k \in 1..Len(h)} = {1, 2, 3} /\ Len(h) = 3
           /\ \E k \in 1..3 : h[k] = last.calls[1].ep /\ k # last.calls[1].ep

-----------------------------------------------------------------------------
(* SpecExact: connected sockets.  UDP and TCP sockets register for IPv4     *)
(* under fully specified ids, bound to any NIC or to NIC 1, and close       *)
(* again; UDP and TCP packets carrying exactly these ids arrive on NIC 1 or *)
(* NIC 2.                                                                   *)

OtherFlow == TransportEndpointID(80, LocalA, 4321, RemoteA)

ExactIDs == {Connected, OtherFlow, ToMulticast}

\* The bindings of the sockets: the transport protocol, the id and the NIC.
ExactBindings ==
    {<<UDPProtocolNumber, Connected, 0>>, <<UDPProtocolNumber, Connected, 1>>,
     <<UDPProtocolNumber, OtherFlow, 0>>, <<UDPProtocolNumber, ToMulticast, 0>>,
     <<TCPProtocolNumber, Connected, 0>>, <<TCPProtocolNumber, ToMulticast, 0>>}

ExactPackets ==
    {Inbound(IPv4ProtocolNumber, nic, id.LocalPort, id.LocalAddress, id.RemotePort,
             id.RemoteAddress) : nic \in {1, 2}, id \in ExactIDs}

InitExact == InitWith({{TCPProtocolNumber}})

NextExact ==
    \/ /\ Idle
       /\ \E b \in ExactBindings, ep \in Endpoints :
            RegisterEndpoint(<<IPv4ProtocolNumber>>, b[1], b[2], ep, FALSE, b[3], <<SeedA>>)
    \/ /\ Idle
       /\ \E b \in ExactBindings, ep \in Endpoints :
            UnregisterEndpoint(<<IPv4ProtocolNumber>>, b[1], b[2], ep, b[3])
    \/ /\ Idle
       /\ \E pk \in ExactPackets, transProto \in {UDPProtocolNumber, TCPProtocolNumber} :
            DeliverPacket(pk.r, transProto, pk.id)
    \/ Return

SpecExact == InitExact /\ [][NextExact]_vars

\* id has no wildcard field.
Exact(id) ==
    id.LocalPort # 0 /\ id.LocalAddress # <<>> /\ id.RemotePort # 0 /\ id.RemoteAddress # <<>>

\* The endpoints registered under id in the registry eps, on whatever NIC.
Owners(eps, id) ==
    IF id \notin DOMAIN eps.endpoints THEN {}
    ELSE UNION {{eps.endpoints[id].endpoints[nic].endpoints[k]
                   : k \in 1..Len(eps.endpoints[id].endpoints[nic].endpoints)}
                : nic \in DOMAIN eps.endpoints[id].endpoints}

\* The endpoints registered under the pair of delivery c have pairwise distinct
\* exact ids, and one of them has the id of the packet.
DistinctExact(c) ==
    /\ c.op = "deliverPacket"
    /\ PairOf(c) \in DOMAIN protocol
    /\ LET eps == protocol[PairOf(c)]
       IN  /\ \A id \in DOMAIN eps.endpoints : Exact(id)
           /\ \A id1, id2 \in DOMAIN eps.endpoints :
                id1 # id2 => Owners(eps, id1) \cap Owners(eps, id2) = {}
           /\ \A id \in DOMAIN eps.endpoints : Cardinality(Owners(eps, id)) = 1
           /\ c.args.id \in DOMAIN eps.endpoints

\* The packet of delivery c is a TCP segment with a source or destination that
\* is not a unicast address.
RejectedSegment(c) ==
    /\ c.args.transProto = TCPProtocolNumber
    /\ NonUnicast(c.args.r.LocalAddress) \/ NonUnicast(c.args.r.RemoteAddress)

\* C26 as stated: when the registered endpoints have pairwise distinct exact
\* ids, deliverPacket with the id of one of them delivers the packet to that
\* endpoint and to no other.
C26_AsStated ==
    DistinctExact(last) =>
        /\ last.calls # <<>>
        /\ \A k \in 1..Len(last.calls) :
             last.calls[k].ep \in Owners(protocol[PairOf(last)], last.args.id)

\* C26, amended: when the endpoints registered under the packet's protocol pair
\* have pairwise distinct exact ids, deliverPacket with the id of one of them
\* calls no other endpoint; it calls that endpoint if the endpoint is registered
\* under the id for the receiving NIC or for NIC 0 and the packet is not a TCP
\* segment with a non-unicast source or destination, and no endpoint otherwise.
C26_ExactMatchOnly ==
    DistinctExact(last) =>
        /\ \A k \in 1..Len(last.calls) :
             last.calls[k].ep \in Owners(protocol[PairOf(last)], last.args.id)
        /\ last.calls # <<>>
             <=> (Bound(last, last.args.id) # <<>> /\ ~RejectedSegment(last))

\* Two connected UDP sockets differ in the remote port only; the packet of the
\* second flow went to the second socket alone.
C26_Witness ==
    /\ DistinctExact(last)
    /\ last.args.id = OtherFlow
    /\ Connected \in DOMAIN protocol[PairOf(last)].endpoints
    /\ Owners(protocol[PairOf(last)], Connected) # Owners(protocol[PairOf(last)], OtherFlow)
    /\ Len(last.calls) = 1
    /\ last.calls[1].ep \in Owners(protocol[PairOf(last)], OtherFlow)

\* The socket with the packet's id is bound to NIC 1 and the packet came in on
\* NIC 2: nobody was called.
C26_WitnessOtherNic ==
    /\ DistinctExact(last)
    /\ last.args.transProto = UDPProtocolNumber
    /\ last.args.r.nic = 2
    /\ DOMAIN protocol[PairOf(last)].endpoints[last.args.id].endpoints = {1}
    /\ last.calls = <<>>

\* A TCP socket has the id of a segment to a multicast address: nobody was
\* called.
C26_WitnessRejected ==
    /\ DistinctExact(last)
    /\ RejectedSegment(last)
    /\ Bound(last, last.args.id) # <<>>
    /\ last.calls = <<>>

-----------------------------------------------------------------------------
(* Concurrent callers.  Each goroutine is inside at most one call; a call   *)
(* advances in steps, one per critical section, and the steps of different *)
(* goroutines interleave.  A writer takes eps.mu of one pair (LockPair),   *)
(* then does the pair's part of its call and releases the lock             *)
(* (SingleRegisterLocked, UnregisterLocked); inside it holds the group's   *)
(* epsByNic.mu and the set's mu, which it cannot get while a delivery      *)
(* holds the group's read lock.  A delivery looks its groups up under      *)
(* eps.mu.RLock (LookupEndpoints), which it releases before it calls       *)
(* handlePacket on each group found; handlePacket holds the group's read   *)
(* lock from HandlePacket to HandlePacketReturn, while the endpoints run.  *)
(* Code that reads no shared mutable state (d.protocol is never written    *)
(* after construction) is part of the step before it.                      *)

\* A pointer to the endpointsByNic found under key id: while the group is in
\* the registry it is the registry's entry; once unregisterEndpoint has deleted
\* the entry, unlinked holds the object as the deletion left it.
ptr(id) == [group |-> id, unlinked |-> <<>>]

deref(p, pid, q) ==
    IF q.unlinked = <<>> THEN p[pid].endpoints[q.group] ELSE q.unlinked[1]

\* Mutant: the group is deleted from the registry as it was before the
\* endpoint was taken out of it.
unlinkedGroup_untouched(eps, id, ep, bindToDevice) == eps.endpoints[id]

\* The endpointsByNic under id after transportEndpoints.unregisterEndpoint has
\* deleted it from eps: what the holder of a pointer to it still sees.
unlinkedGroup(eps, id, ep, bindToDevice) ==
    endpointsByNic_unregisterEndpoint(eps.endpoints[id], bindToDevice, ep).epsByNic

\* Mutant: the lock stays held when the pair's part of the call is done.
unlock_never(m, pid) == m

\* eps.mu.Unlock(), deferred in singleRegisterEndpoint and in
\* transportEndpoints.unregisterEndpoint.
unlock(m, pid) == [m EXCEPT ![pid] = NoThread]

\* The pair the writer th works on in iteration th.i of its loop.
WriterPair(th) == protocolIDs(th.args.netProtos[th.i], th.args.transProto)

\* The pair and the receiving NIC of the delivery th.
DeliverPair(th) ==
    IF th.op \in {"deliverPacket", "deliverRawPacket"}
    THEN protocolIDs(th.args.r.NetProto, th.args.transProto)
    ELSE IF th.op = "findTransportEndpoint"
    THEN protocolIDs(th.args.netProto, th.args.transProto)
    ELSE protocolIDs(th.args.net, th.args.trans)

DeliverNic(th) == IF th.op = "deliverPacket" THEN th.args.r.nic ELSE th.args.n

\* The goroutines that hold the read lock of pair pid from one step to the
\* next: findTransportEndpoint until it has the group's read lock, and
\* deliverRawPacket while the raw endpoints run.
PairReaders(pid) ==
    {t \in Threads :
        /\ thread[t].pc \in {"findgroup", "rawhandling"}
        /\ DeliverPair(thread[t]) = pid}

\* The deliveries that hold the read lock of the group under id of pair pid.
GroupReaders(pid, id) ==
    {t \in Threads :
        /\ thread[t].pc = "handling"
        /\ DeliverPair(thread[t]) = pid
        /\ thread[t].ptrs[thread[t].k] = ptr(id)}

\* The registrations of p, as (slot, member), that match id at some tier of
\* the lookup of pair pid.
MatchingRegistrations(p, pid, id) ==
    {m \in Slots(p) \X Endpoints :
        /\ m[1][1] = pid
        /\ \E k \in 1..4 : m[1][2] = Tier(id, k)
        /\ m[2] \in Range(Members(p, m[1]))}

\* The history field stayed of a watched delivery x, the registry becoming p.
watched(x, p) ==
    IF "stayed" \in DOMAIN x
    THEN [x EXCEPT !.stayed = {m \in @ : m[1] \in Slots(p) /\ m[2] \in Range(Members(p, m[1]))}]
    ELSE x

\* Where the writer th goes on: the loops of registerEndpoint and
\* unregisterEndpoint skip to the next pair the demuxer holds, whose lock is
\* taken next; an unknown pair ends the registrations with ErrUnknownProtocol
\* and starts the rollback of netProtos[:i].
RECURSIVE loopNext(_, _)
loopNext(p, th) ==
    IF th.i > th.n THEN [th EXCEPT !.pc = "done"]
    ELSE IF WriterPair(th) \in DOMAIN p THEN [th EXCEPT !.pc = "lock"]
    ELSE IF th.phase = "register"
    THEN loopNext(p, [th EXCEPT !.phase = "unregister", !.err = ErrUnknownProtocol,
                                !.n = th.i - 1, !.i = 1])
    ELSE loopNext(p, [th EXCEPT !.i = th.i + 1])

\* ep is a member of some set of p.
Registered(p, ep) ==
    \E s \in Slots(p) : \E k \in 1..Len(Members(p, s)) : Members(p, s)[k] = ep

writer(op, args, n, p) ==
    [pc |-> "lock", op |-> op, args |-> args,
     phase |-> IF op = "registerEndpoint" THEN "register" ELSE "unregister",
     i |-> 1, n |-> n, err |-> nil,
     fresh |-> ~Registered(p, args.ep),  \* history: ep had no registration when the call began
     delivered |-> FALSE]                \* history: ep was called under a listed pair during the call

StartRegisterEndpoint(t, netProtos, transProto, id, ep, reusePort, bindToDevice, seeds) ==
    /\ thread[t].pc = "idle"
    /\ Registrations(protocol) + Len(netProtos) <= MaxRegistrations
    /\ thread' = [thread EXCEPT ![t] =
                    loopNext(protocol,
                             writer("registerEndpoint",
                                    [netProtos |-> netProtos, transProto |-> transProto,
                                     id |-> id, ep |-> ep, reusePort |-> reusePort,
                                     bindToDevice |-> bindToDevice, seeds |-> seeds],
                                    Len(netProtos), protocol))]
    /\ UNCHANGED <<protocol, queuedProtocols, last, created, affinity, mu>>

StartUnregisterEndpoint(t, netProtos, transProto, id, ep, bindToDevice) ==
    /\ thread[t].pc = "idle"
    /\ thread' = [thread EXCEPT ![t] =
                    loopNext(protocol,
                             writer("unregisterEndpoint",
                                    [netProtos |-> netProtos, transProto |-> transProto,
                                     id |-> id, ep |-> ep, reusePort |-> FALSE,
                                     bindToDevice |-> bindToDevice, seeds |-> <<>>],
                                    Len(netProtos), protocol))]
    /\ UNCHANGED <<protocol, queuedProtocols, last, created, affinity, mu>>

\* eps.mu.Lock() of the pair of the current iteration.
LockPair(t) ==
    /\ thread[t].pc = "lock"
    /\ mu[WriterPair(thread[t])] = NoThread
    /\ PairReaders(WriterPair(thread[t])) = {}
    /\ mu' = [mu EXCEPT ![WriterPair(thread[t])] = t]
    /\ thread' = [thread EXCEPT ![t].pc = "locked"]
    /\ UNCHANGED <<protocol, queuedProtocols, last, created, affinity>>

\* singleRegisterEndpoint from eps.mu.Lock() on, and the loop of
\* registerEndpoint up to the next lock.
SingleRegisterLocked(t) ==
    LET th  == thread[t]
        pid == WriterPair(th)
        after(r) ==
            /\ protocol' = r.p
            /\ thread' = [thread EXCEPT ![t] =
                            loopNext(protocol,
                                     IF r.err # nil
                                     THEN [th EXCEPT !.phase = "unregister", !.err = r.err,
                                                     !.n = th.i - 1, !.i = 1]
                                     ELSE [th EXCEPT !.i = th.i + 1])]
    IN  /\ th.pc = "locked"
        /\ th.phase = "register"
        /\ GroupReaders(pid, th.args.id) = {}
        /\ after(transportDemuxer_singleRegisterEndpoint(
                     protocol, th.args.netProtos[th.i], th.args.transProto, th.args.id,
                     th.args.ep, th.args.reusePort, th.args.bindToDevice, th.args.seeds[th.i]))
        /\ mu' = unlock(mu, pid)
        /\ UNCHANGED <<queuedProtocols, last, created, affinity>>

\* transportEndpoints.unregisterEndpoint from eps.mu.Lock() on, and the loop
\* of unregisterEndpoint up to the next lock.  The deliveries that found the
\* group before keep their pointer to it when the entry is deleted.
UnregisterLocked(t) ==
    LET th   == thread[t]
        pid  == WriterPair(th)
        eps  == protocol[pid]
        eps2 == transportEndpoints_unregisterEndpoint(eps, th.args.id, th.args.ep,
                                                      th.args.bindToDevice)
        gone == th.args.id \in DOMAIN eps.endpoints /\ th.args.id \notin DOMAIN eps2.endpoints
        kept(q) == IF q = ptr(th.args.id)
                   THEN [q EXCEPT !.unlinked =
                           <<unlinkedGroup(eps, th.args.id, th.args.ep, th.args.bindToDevice)>>]
                   ELSE q
        holder(x) == IF gone /\ x.pc \in {"handle", "handling"} /\ DeliverPair(x) = pid
                     THEN [x EXCEPT !.ptrs = [k \in 1..Len(x.ptrs) |-> kept(x.ptrs[k])]]
                     ELSE x
    IN  /\ th.pc = "locked"
        /\ th.phase = "unregister"
        /\ GroupReaders(pid, th.args.id) = {}
        /\ protocol' = [protocol EXCEPT ![pid] = eps2]
        /\ thread' = [u \in Threads |->
                        IF u = t THEN loopNext(protocol, [th EXCEPT !.i = th.i + 1])
                        ELSE watched(holder(thread[u]), [protocol EXCEPT ![pid] = eps2])]
        /\ mu' = unlock(mu, pid)
        /\ UNCHANGED <<queuedProtocols, last, created, affinity>>

delivery(op, args) ==
    [pc |-> "lookup", op |-> op, args |-> args,
     ptrs |-> <<>>,     \* destEPs, or the one ep found
     k |-> 0,           \* the index in ptrs of the group handlePacket is called on
     calls |-> <<>>,    \* the calls made on endpoints so far
     applied |-> <<>>,  \* history: the member lists selectEndpoint and handlePacketAll were applied to
     fresh |-> 1, ret |-> FALSE]

\* deliverPacket up to the first eps.mu.RLock(): the call is over if the
\* demuxer lacks the pair or the segment is a TCP segment with a non-unicast
\* address.
deliverPacketEntry(p, r, transProto, id) ==
    LET th == delivery("deliverPacket", [r |-> r, transProto |-> transProto, id |-> id])
    IN  IF protocolIDs(r.NetProto, transProto) \notin DOMAIN p
        THEN [th EXCEPT !.pc = "done"]
        ELSE IF /\ ~(transProto = UDPProtocolNumber
                     /\ isMulticastOrBroadcast(id.LocalAddress))
                /\ transProto = TCPProtocolNumber
                /\ (~isUnicast(r.LocalAddress) \/ ~isUnicast(r.RemoteAddress))
        THEN [th EXCEPT !.pc = "done", !.ret = TRUE]
        ELSE th

StartDeliverPacket(t, r, transProto, id) ==
    /\ thread[t].pc = "idle"
    /\ thread' = [thread EXCEPT ![t] = deliverPacketEntry(protocol, r, transProto, id)]
    /\ UNCHANGED <<protocol, queuedProtocols, last, created, affinity, mu>>

\* The same call, with a history field: the registrations (slot and member)
\* that match id at some tier and have been there since the call began.
StartDeliverPacketWatched(t, r, transProto, id) ==
    /\ thread[t].pc = "idle"
    /\ thread' = [thread EXCEPT ![t] =
                    deliverPacketEntry(protocol, r, transProto, id)
                      @@ [stayed |-> MatchingRegistrations(
                                        protocol, protocolIDs(r.NetProto, transProto), id)]]
    /\ UNCHANGED <<protocol, queuedProtocols, last, created, affinity, mu>>

\* deliverControlPacket up to eps.mu.RLock().
StartDeliverControlPacket(t, n, net, trans, id) ==
    LET th == delivery("deliverControlPacket", [n |-> n, net |-> net, trans |-> trans, id |-> id])
    IN  /\ thread[t].pc = "idle"
        /\ thread' = [thread EXCEPT ![t] =
                IF protocolIDs(net, trans) \notin DOMAIN protocol
                THEN [th EXCEPT !.pc = "done"] ELSE th]
        /\ UNCHANGED <<protocol, queuedProtocols, last, created, affinity, mu>>

\* The lookup under eps.mu.RLock(): findAllEndpointsLocked for a UDP datagram
\* to a multicast or broadcast address, findEndpointLocked otherwise.
LookupEndpoints(t) ==
    LET th  == thread[t]
        pid == DeliverPair(th)
        all == /\ th.op = "deliverPacket"
               /\ th.args.transProto = UDPProtocolNumber
               /\ isMulticastOrBroadcast(th.args.id.LocalAddress)
        found == IF all THEN findAllEndpointsLocked(protocol[pid], th.args.id)
                 ELSE findEndpointLocked(protocol[pid], th.args.id)
    IN  /\ th.pc = "lookup"
        /\ mu[pid] = NoThread
        /\ thread' = [thread EXCEPT ![t] =
                IF found = <<>> THEN [th EXCEPT !.pc = "done"]
                ELSE [th EXCEPT !.pc = "handle", !.k = 1,
                                !.ptrs = [k \in 1..Len(found) |-> ptr(found[k])]]]
        /\ UNCHANGED <<protocol, queuedProtocols, last, created, affinity, mu>>

\* The delivery th has left handlePacket of group k: the next group, or return
\* true.
afterGroup(th) ==
    IF th.k = Len(th.ptrs) THEN [th EXCEPT !.pc = "done", !.ret = TRUE]
    ELSE [th EXCEPT !.pc = "handle", !.k = th.k + 1]

\* The writer x has the endpoint of one of calls in its registerEndpoint, and
\* pid is one of the pairs it lists.
calledDuring(x, calls, pid) ==
    /\ x.pc \in {"lock", "locked"}
    /\ x.op = "registerEndpoint"
    /\ \E k \in 1..Len(calls) : calls[k].ep = x.args.ep
    /\ \E j \in 1..Len(x.args.netProtos) :
         protocolIDs(x.args.netProtos[j], x.args.transProto) = pid

\* endpointsByNic.handlePacket or handleControlPacket on group k, from
\* epsByNic.mu.RLock() to the calls of the endpoints; a group without a set for
\* the NIC is left at once.  Indexing an empty member list panics.
HandlePacket(t) ==
    LET th     == thread[t]
        pid    == DeliverPair(th)
        q      == th.ptrs[th.k]
        g      == deref(protocol, pid, q)
        nic    == resolveNic(g, DeliverNic(th))
        isLast == th.k = Len(th.ptrs)
        pkt    == IF isLast THEN 0 ELSE th.fresh
        fresh  == IF isLast THEN th.fresh ELSE th.fresh + 1
        members == g.endpoints[nic[1]].endpoints
        called(h) ==
            [u \in Threads |->
               IF u = t
               THEN [th EXCEPT !.pc = "handling", !.calls = @ \o h.calls,
                               !.applied = Append(@, members), !.fresh = h.fresh]
               ELSE IF calledDuring(thread[u], h.calls, pid)
                    THEN [thread[u] EXCEPT !.delivered = TRUE]
                    ELSE thread[u]]
    IN  /\ th.pc = "handle"
        /\ thread' =
             IF nic = <<>>
             THEN [thread EXCEPT ![t] = afterGroup([th EXCEPT !.fresh = fresh])]
             ELSE IF members = <<>>
             THEN [thread EXCEPT ![t] = [th EXCEPT !.pc = "panic", !.applied = Append(@, members)]]
             ELSE IF th.op = "deliverPacket"
             THEN called(endpointsByNic_handlePacket(g, th.args.r, th.args.id, pkt, fresh, q.group))
             ELSE called([calls |-> endpointsByNic_handleControlPacket(g, th.args.n, th.args.id,
                                                                       0, q.group),
                          fresh |-> fresh])
        /\ UNCHANGED <<protocol, queuedProtocols, last, created, affinity, mu>>

\* The endpoints have returned: epsByNic.mu.RUnlock().
HandlePacketReturn(t) ==
    /\ thread[t].pc = "handling"
    /\ thread' = [thread EXCEPT ![t] = afterGroup(thread[t])]
    /\ UNCHANGED <<protocol, queuedProtocols, last, created, affinity, mu>>

\* The call returns to its caller.
ThreadReturn(t) ==
    /\ thread[t].pc = "done"
    /\ thread' = [thread EXCEPT ![t] = IdleThread]
    /\ UNCHANGED <<protocol, queuedProtocols, last, created, affinity, mu>>

-----------------------------------------------------------------------------
(* SpecConc: the application binds UDP sockets with port reuse to port 53  *)
(* on any NIC, for IPv4, for IPv4 and IPv6, or for IPv4 and a network      *)
(* protocol the stack lacks, and closes them for both IPv4 and IPv6, while *)
(* the dispatcher of NIC 1 delivers datagrams and ICMP errors for          *)
(* 10.0.0.5:53 and datagrams for 224.0.0.1:53.                             *)

ConcNets ==
    {<<IPv4ProtocolNumber>>, <<IPv4ProtocolNumber, IPv6ProtocolNumber>>,
     <<IPv4ProtocolNumber, UnknownNetProto>>}

ConcPackets ==
    {Inbound(IPv4ProtocolNumber, 1, 53, la, 1234, RemoteA) : la \in {LocalA, Multicast}}

InitConc == InitWith({{TCPProtocolNumber}})

NextConc ==
    \/ \E t \in Writers, nets \in ConcNets, ep \in Endpoints :
         StartRegisterEndpoint(t, nets, UDPProtocolNumber, DNS, ep, TRUE, 0,
                               [k \in 1..Len(nets) |-> SeedB])
    \/ \E t \in Writers, ep \in Endpoints :
         StartUnregisterEndpoint(t, <<IPv4ProtocolNumber, IPv6ProtocolNumber>>,
                                 UDPProtocolNumber, DNS, ep, 0)
    \/ \E t \in Writers : LockPair(t)
    \/ \E t \in Writers : SingleRegisterLocked(t)
    \/ \E t \in Writers : UnregisterLocked(t)
    \/ \E t \in Deliverers, pk \in ConcPackets :
         StartDeliverPacket(t, pk.r, UDPProtocolNumber, pk.id)
    \/ \E t \in Deliverers :
         StartDeliverControlPacket(t, 1, IPv4ProtocolNumber, UDPProtocolNumber,
                                   TransportEndpointID(53, LocalA, 1234, RemoteA))
    \/ \E t \in Deliverers : LookupEndpoints(t)
    \/ \E t \in Deliverers : HandlePacket(t)
    \/ \E t \in Deliverers : HandlePacketReturn(t)
    \/ \E t \in Threads : ThreadReturn(t)

SpecConc == InitConc /\ [][NextConc]_vars

\* The pair locks goroutine t holds, and the pair lock it is about to take.
Held(t) == {pid \in DOMAIN mu : mu[pid] = t}

Wanted(t) ==
    IF thread[t].pc = "lock" THEN {WriterPair(thread[t])}
    ELSE IF thread[t].pc = "lookup" THEN {DeliverPair(thread[t])}
    ELSE {}

\* C27: no goroutine holds or waits for the locks of two pairs at the same
\* time: the locks it holds and the lock it wants are never more than one, in
\* every step of a multi-protocol registerEndpoint or unregisterEndpoint too;
\* and a goroutine that wants the lock of a pair gets it whenever nobody holds
\* that pair's lock, whatever other pairs' locks are held.
C27_OnePairAtATime ==
    \A t \in Threads :
       /\ Cardinality(Held(t) \cup Wanted(t)) <= 1
       /\ (thread[t].pc = "lock" /\ mu[WriterPair(thread[t])] = NoThread)
            => ENABLED LockPair(t)
       /\ (thread[t].pc = "lookup" /\ mu[DeliverPair(thread[t])] = NoThread)
            => ENABLED LookupEndpoints(t)

\* The application holds the lock of the IPv6 pair in the second iteration of
\* a dual-stack call while the dispatcher is about to look an IPv4 datagram up,
\* and can.
C27_Witness ==
    /\ mu[protocolIDs(IPv6ProtocolNumber, UDPProtocolNumber)] = "app"
    /\ thread["app"].i = 2
    /\ thread["nic1"].pc = "lookup"
    /\ DeliverPair(thread["nic1"]) = protocolIDs(IPv4ProtocolNumber, UDPProtocolNumber)
    /\ ENABLED LookupEndpoints("nic1")

\* C28 as stated: a delivery running concurrently with a registerEndpoint call
\* that ends in an error never calls the endpoint of that call under one of the
\* listed pairs.  The endpoint had no registration when the call began, so a
\* call on it during the call came through a registration the call made.
C28_AsStated ==
    \A t \in Writers :
       (/\ thread[t].pc = "done"
        /\ thread[t].op = "registerEndpoint"
        /\ thread[t].err # nil
        /\ thread[t].fresh)
       => ~thread[t].delivered

\* ep is a member of the set of NIC nic in the group under id of pair pid.
IsMember(p, pid, id, nic, ep) ==
    /\ id \in DOMAIN p[pid].endpoints
    /\ nic \in DOMAIN p[pid].endpoints[id].endpoints
    /\ \E k \in 1..Len(p[pid].endpoints[id].endpoints[nic].endpoints) :
         p[pid].endpoints[id].endpoints[nic].endpoints[k] = ep

\* The calls the delivery of goroutine t begins in this step.
Begun(t) ==
    IF thread[t].pc = "handle" /\ thread'[t].pc = "handling"
    THEN SubSeq(thread'[t].calls, Len(thread[t].calls) + 1, Len(thread'[t].calls))
    ELSE <<>>

\* C29: every call of an endpoint's HandlePacket, HandleControlPacket or of
\* QueuePacket that a delivery begins is on an endpoint that is at that moment
\* a member, in the registry, of the set the delivery took it from; so once
\* unregisterEndpoint has returned for an endpoint registered exactly once, no
\* call on it begins, not even by a delivery that looked the group up before.
C29_NoCallAfterUnregister ==
    [][\A t \in Deliverers :
          \A k \in 1..Len(Begun(t)) :
             IsMember(protocol, DeliverPair(thread[t]), Begun(t)[k].group, Begun(t)[k].nic,
                      Begun(t)[k].ep)]_vars

\* The dispatcher looked the group up, the application then unregistered the
\* only endpoint and its call is over; the dispatcher's handlePacket ran on the
\* group it still held and called nobody.
C29_Witness ==
    /\ thread["app"].pc = "done"
    /\ thread["app"].op = "unregisterEndpoint"
    /\ ~Registered(protocol, thread["app"].args.ep)
    /\ thread["nic1"].pc = "done"
    /\ thread["nic1"].ret
    /\ thread["nic1"].ptrs[1].unlinked # <<>>
    /\ thread["nic1"].calls = <<>>

\* C30: selectEndpoint and handlePacketAll are applied only to member lists
\* with at least one member, and no delivery panics on an index, whatever was
\* registered or unregistered between its lookup and its handlePacket.
C30_NeverEmpty ==
    \A t \in Deliverers :
       thread[t].pc # "idle" =>
          /\ thread[t].pc # "panic"
          /\ \A k \in 1..Len(thread[t].applied) : Len(thread[t].applied[k]) >= 1

\* A delivery found the group; the group was then removed from the registry,
\* and handlePacket on the group the delivery still held resolved no set and
\* indexed nothing.
C30_Witness ==
    /\ thread["nic1"].pc = "done"
    /\ thread["nic1"].op = "deliverPacket"
    /\ thread["nic1"].ret
    /\ thread["nic1"].ptrs[1].unlinked # <<>>
    /\ thread["nic1"].applied = <<>>

\* selectEndpoint was applied to a set of two members that a registration
\* joined after the lookup.
C30_WitnessSelect ==
    /\ thread["nic1"].pc = "handling"
    /\ thread["nic1"].op = "deliverPacket"
    /\ ~isMulticastOrBroadcast(thread["nic1"].args.id.LocalAddress)
    /\ Len(thread["nic1"].applied) = 1
    /\ Len(thread["nic1"].applied[1]) = 2

-----------------------------------------------------------------------------
(* SpecScale: the index reduction of selectEndpoint.  reciprocalScale is    *)
(* applied to 32-bit values around the ends and the middle of the range    *)
(* and to every member count up to NumEndpoints + 2; selectEndpoint is     *)
(* applied to sets of one or more members, for two flows and two seeds.    *)

\* 16-bit halves at the ends and around the middle of their range.
ScaleHalves == {0, 1, 255, W16 \div 2 - 1, W16 \div 2, W16 - 1}

ScaleValues == {u32(hi, lo) : hi \in ScaleHalves, lo \in ScaleHalves}

ScaleCounts == 1..(NumEndpoints + 2)

\* The member lists of a set: a heap of 1..n.
ScaleSets == {[k \in 1..n |-> k] : n \in ScaleCounts}

ReciprocalScale(val, n) ==
    /\ last' = [op |-> "reciprocalScale", args |-> [val |-> val, n |-> n],
                ret |-> reciprocalScale(val, n)]
    /\ UNCHANGED <<protocol, queuedProtocols, created, affinity, thread, mu>>

SelectEndpoint(id, endpoints, seed) ==
    /\ last' = [op |-> "selectEndpoint",
                args |-> [id |-> id, endpoints |-> endpoints, seed |-> seed],
                ret |-> selectEndpoint(id, [endpoints |-> endpoints, reuse |-> TRUE], seed)]
    /\ UNCHANGED <<protocol, queuedProtocols, created, affinity, thread, mu>>

InitScale == InitWith({{TCPProtocolNumber}})

NextScale ==
    \/ /\ Idle
       /\ \E val \in ScaleValues, n \in ScaleCounts : ReciprocalScale(val, n)
    \/ /\ Idle
       /\ \E id \in {Connected, OtherFlow}, h \in ScaleSets, seed \in {SeedA, SeedB} :
            SelectEndpoint(id, h, seed)
    \/ Return

SpecScale == InitScale /\ [][NextScale]_vars

\* C31: reciprocalScale(val, n) lies in [0, n) for every 32-bit val and every
\* member count n >= 1; selectEndpoint returns a member of the set, and the
\* only member of a set of one.
C31_IndexInRange ==
    /\ last.op = "reciprocalScale"
         => (0 <= last.ret /\ last.ret < last.args.n)
    /\ last.op = "selectEndpoint"
         => /\ \E k \in 1..Len(last.args.endpoints) : last.args.endpoints[k] = last.ret
            /\ Len(last.args.endpoints) = 1 => last.ret = last.args.endpoints[1]

\* The largest 32-bit value was scaled to the last index of the largest set.
C31_Witness ==
    /\ last.op = "reciprocalScale"
    /\ last.args.val = u32(W16 - 1, W16 - 1)
    /\ last.args.n = NumEndpoints + 2
    /\ last.ret = last.args.n - 1

\* selectEndpoint picked a member other than the first.
C31_WitnessSelect ==
    /\ last.op = "selectEndpoint"
    /\ last.ret # last.args.endpoints[1]

\* The reuse flag of the set p holds under slot s.
ReuseOf(p, s) == p[s[1]].endpoints[s[2]].endpoints[s[3]].reuse

\* C34 as stated: the reuse flag of a set is the reusePort value of the
\* registration that created it, and a set with two or more members has
\* reuse = true.
C34_AsStated ==
    \A s \in Slots(protocol) :
       /\ ReuseOf(protocol, s) = created[s]
       /\ Len(Members(protocol, s)) >= 2 => ReuseOf(protocol, s)

\* The reuse flag of every set is the reusePort value its creating registration
\* passed, or false if the id has a remote port; a set of two or more members
\* has reuse = true.
ReuseAsCreated ==
    \A s \in Slots(protocol) :
       /\ ReuseOf(protocol, s) = (created[s] /\ s[2].RemotePort = 0)
       /\ Len(Members(protocol, s)) >= 2 => ReuseOf(protocol, s)

\* A step leaves the reuse flag of every set that exists before and after it,
\* and a registration that adds a member to a set passed reusePort = true.
ReuseKept ==
    \A s \in Slots(protocol) \cap Slots(protocol') :
       /\ ReuseOf(protocol', s) = ReuseOf(protocol, s)
       /\ Len(Members(protocol', s)) > Len(Members(protocol, s))
            => last'.op = "registerEndpoint" /\ last'.args.reusePort

\* C34, amended: the reuse flag of a set is the reusePort value of the
\* registration that created it, but false if the id has a non-zero remote
\* port; it never changes while the set exists, also after members leave; a set
\* with two or more members has reuse = true, and every registration that
\* joined a set passed reusePort = true.
C34_ReuseFixed == []ReuseAsCreated /\ [][ReuseKept]_vars

\* A member has left a set of two; the set is still there with reuse = true.
C34_Witness ==
    /\ last.op = "unregisterEndpoint"
    /\ \E s \in Slots(protocol) \cap Slots(last.before) :
         /\ Len(Members(last.before, s)) = 2
         /\ Len(Members(protocol, s)) = 1
         /\ ReuseOf(protocol, s)
         /\ created[s]

\* A registration with reusePort = true under a connected id created a set
\* with reuse = false.
C34_WitnessPinned ==
    \E s \in Slots(protocol) : created[s] /\ ~ReuseOf(protocol, s)

\* The NIC identifiers under which endpoint ep is registered in p.
NicsOf(p, ep) == {s[3] : s \in {x \in Slots(p) : ep \in Range(Members(p, x))}}

\* Endpoint ep is registered under one non-zero NIC only, and that is not m.
BoundElsewhere(p, ep, m) ==
    /\ Cardinality(NicsOf(p, ep)) = 1
    /\ 0 \notin NicsOf(p, ep)
    /\ m \notin NicsOf(p, ep)

\* C35: an endpoint registered only under a non-zero NIC n gets no packet and
\* no control packet that arrived on another NIC, whatever the registry holds
\* and whatever the inbound id is.
C35_NicIsolation ==
    last.op \in {"deliverPacket", "deliverControlPacket"}
    => \A k \in 1..Len(last.calls) :
         ~BoundElsewhere(protocol, last.calls[k].ep, CallNic(last))

\* Endpoint 2 being bound to port 53 on NIC 1 only and endpoint 1 on any NIC,
\* a multicast datagram received on NIC 2 went to endpoint 1 alone.
C35_Witness ==
    /\ last.op = "deliverPacket"
    /\ last.args.r.nic = 2
    /\ last.args.id.LocalAddress = Multicast
    /\ BoundElsewhere(protocol, 2, 2)
    /\ NicsOf(protocol, 1) = {0}
    /\ Recipients(last.calls) = <<1>>

\* Endpoint 2 being the only socket of port 53 and bound to NIC 1, a control
\* packet received on NIC 2 reached no endpoint.
C35_WitnessControl ==
    /\ last.op = "deliverControlPacket"
    /\ last.args.n = 2
    /\ BoundElsewhere(protocol, 2, 2)
    /\ NicsOf(protocol, 1) = {}
    /\ last.calls = <<>>

\* The last call registered for one pair under a (pair, id, nic) for which
\* there was no set.
FirstRegistration ==
    /\ last.op = "registerEndpoint"
    /\ Len(last.args.netProtos) = 1
    /\ RegSlot(last, last.args.netProtos[1]) \notin Slots(last.before)

\* The sets p held are in q with the members they had.
SetsKept(p, q) ==
    \A x \in Slots(p) : x \in Slots(q) /\ Members(q, x) = Members(p, x)

\* C36: a registration under an (id, nic) succeeds whatever its reusePort value
\* if there is no set for the identical (pair, id, nic), also when the same id
\* is registered under other NICs, NIC 0 included; PortInUse is returned only
\* if a set with members exists for the identical (pair, id, nic).
C36_NoConflictAcrossNics ==
    /\ FirstRegistration
         => LET s == RegSlot(last, last.args.netProtos[1])
            IN  /\ last.ret = nil
                /\ s \in Slots(protocol)
                /\ Members(protocol, s) = <<last.args.ep>>
                /\ SetsKept(last.before, protocol)
    /\ (last.op = "registerEndpoint" /\ Len(last.args.netProtos) = 1
        /\ last.ret = ErrPortInUse)
         => /\ RegSlot(last, last.args.netProtos[1]) \in Slots(last.before)
            /\ Members(last.before, RegSlot(last, last.args.netProtos[1])) # <<>>

\* The id being registered under NIC 0 without reuse, a registration of the
\* same id under NIC 1 without reuse succeeded.
C36_Witness ==
    /\ FirstRegistration
    /\ last.args.bindToDevice = 1
    /\ ~last.args.reusePort
    /\ <<RegSlot(last, last.args.netProtos[1])[1], last.args.id, 0>> \in Slots(last.before)
    /\ ~created[<<RegSlot(last, last.args.netProtos[1])[1], last.args.id, 0>>]
    /\ last.ret = nil

\* The id being registered under NIC 1, a registration of the same id under
\* NIC 0 succeeded.
C36_WitnessAny ==
    /\ FirstRegistration
    /\ last.args.bindToDevice = 0
    /\ <<RegSlot(last, last.args.netProtos[1])[1], last.args.id, 1>> \in Slots(last.before)
    /\ last.ret = nil

\* A registration was refused with PortInUse.
C36_WitnessRefused ==
    /\ last.op = "registerEndpoint"
    /\ last.ret = ErrPortInUse

-----------------------------------------------------------------------------
(* Multicast datagrams whose id has no remote part.                         *)

\* Multicast datagrams for port 53 on NIC 1, with and without a remote port
\* and a remote address.
ProbePackets ==
    {Inbound(IPv4ProtocolNumber, 1, 53, Multicast, rp, ra) :
        rp \in {0, 1234}, ra \in {<<>>, RemoteA}}

InitProbe == InitWith({{TCPProtocolNumber}})

NextProbe ==
    \/ /\ Idle
       /\ \E id \in {DNS, DNSMulticast}, ep \in Endpoints, nic \in {0, 1} :
            RegisterEndpoint(<<IPv4ProtocolNumber>>, UDPProtocolNumber, id, ep, TRUE, nic,
                             <<SeedB>>)
    \/ /\ Idle
       /\ \E id \in {DNS, DNSMulticast}, ep \in Endpoints, nic \in {0, 1} :
            UnregisterEndpoint(<<IPv4ProtocolNumber>>, UDPProtocolNumber, id, ep, nic)
    \/ /\ Idle
       /\ \E pk \in ProbePackets : DeliverPacket(pk.r, UDPProtocolNumber, pk.id)
    \/ Return

SpecProbe == InitProbe /\ [][NextProbe]_vars

\* The (pair, id, nic) under which endpoint ep is a member of a set of p.
SlotsOf(p, ep) == {x \in Slots(p) : ep \in Range(Members(p, x))}

\* Endpoint ep is registered under a single (id, nic), once.
SingleRegistration(p, ep) ==
    /\ Cardinality(SlotsOf(p, ep)) = 1
    /\ \A x \in SlotsOf(p, ep) : Count(Members(p, x), ep) = 1

\* No group is handed the datagram twice.
GroupsOnce(c) ==
    \A i, j \in 1..Len(c.handed) : c.handed[i].group = c.handed[j].group => i = j

OncePerEndpointWithRemote ==
    (/\ last.op = "deliverPacket"
     /\ Branch(last) = "multicast"
     /\ (last.args.id.RemotePort # 0 \/ last.args.id.RemoteAddress # <<>>))
    => /\ GroupsOnce(last)
       /\ \A ep \in Endpoints :
            SingleRegistration(protocol, ep) => Count(Recipients(last.calls), ep) <= 1

\* A multicast datagram without remote part was handed twice to the one
\* endpoint bound to port 53.
TwiceToOneEndpoint ==
    /\ last.op = "deliverPacket"
    /\ last.args.id = DNSMulticast
    /\ SingleRegistration(protocol, 1)
    /\ Recipients(last.calls) = <<1, 1>>

\* The raw list of pair pid in p.
RawOf(p, pid) == p[pid].rawEndpoints

\* C39: unregisterRawEndpoint(ep) on a supported pair takes exactly one
\* occurrence of ep out of that pair's raw list and keeps every other raw
\* endpoint, in whatever order; if ep is not in the list the list is unchanged;
\* the endpoint maps and the raw lists of the other pairs are untouched.
C39_OneOccurrence ==
    (last.op = "unregisterRawEndpoint" /\ ~last.panic)
    => LET pid == protocolIDs(last.args.netProto, last.args.transProto)
           was == RawOf(last.before, pid)
           now == RawOf(protocol, pid)
       IN  /\ \A e \in Endpoints :
                Count(now, e) = Count(was, e)
                                  - (IF e = last.args.ep /\ Count(was, e) > 0 THEN 1 ELSE 0)
           /\ Len(now) = Len(was) - (IF Count(was, last.args.ep) > 0 THEN 1 ELSE 0)
           /\ Count(was, last.args.ep) = 0 => now = was
           /\ protocol[pid].endpoints = last.before[pid].endpoints
           /\ \A q \in DOMAIN protocol \ {pid} : protocol[q] = last.before[q]
           /\ DOMAIN protocol = DOMAIN last.before

\* Raw endpoint 1 was in the list twice, ahead of raw endpoint 2; one
\* occurrence is gone, and endpoint 2 has moved to its place.
C39_Witness ==
    /\ last.op = "unregisterRawEndpoint"
    /\ ~last.panic
    /\ last.args.ep = 1
    /\ RawOf(last.before, protocolIDs(last.args.netProto, last.args.transProto)) = <<1, 1, 2>>
    /\ RawOf(protocol, protocolIDs(last.args.netProto, last.args.transProto)) = <<2, 1>>

\* A raw endpoint that is not in the list of the pair was unregistered, the
\* pair having another raw endpoint and a socket, and another pair having a
\* raw endpoint.
C39_WitnessAbsent ==
    /\ last.op = "unregisterRawEndpoint"
    /\ ~last.panic
    /\ LET pid == protocolIDs(last.args.netProto, last.args.transProto)
       IN  /\ Count(RawOf(last.before, pid), last.args.ep) = 0
           /\ RawOf(last.before, pid) # <<>>
           /\ \E q \in DOMAIN protocol \ {pid} : RawOf(protocol, q) # <<>>
    /\ Slots(protocol) # {}

-----------------------------------------------------------------------------
(* SpecLost: the application binds and closes UDP sockets on port 53, on    *)
(* any address and on 10.0.0.5, on any NIC, while the dispatcher of NIC 1  *)
(* delivers datagrams for 10.0.0.5:53.                                     *)

InitLost == InitWith({{TCPProtocolNumber}})

NextLost ==
    \/ \E t \in Writers, id \in {DNS, DNSLocal}, ep \in Endpoints :
         StartRegisterEndpoint(t, <<IPv4ProtocolNumber>>, UDPProtocolNumber, id, ep, TRUE, 0,
                               <<SeedB>>)
    \/ \E t \in Writers, id \in {DNS, DNSLocal}, ep \in Endpoints :
         StartUnregisterEndpoint(t, <<IPv4ProtocolNumber>>, UDPProtocolNumber, id, ep, 0)
    \/ \E t \in Writers : LockPair(t)
    \/ \E t \in Writers : SingleRegisterLocked(t)
    \/ \E t \in Writers : UnregisterLocked(t)
    \/ \E t \in Deliverers :
         StartDeliverPacketWatched(t, Route(IPv4ProtocolNumber, 1, LocalA, RemoteA),
                                   UDPProtocolNumber,
                                   TransportEndpointID(53, LocalA, 1234, RemoteA))
    \/ \E t \in Deliverers : LookupEndpoints(t)
    \/ \E t \in Deliverers : HandlePacket(t)
    \/ \E t \in Deliverers : HandlePacketReturn(t)
    \/ \E t \in Threads : ThreadReturn(t)

SpecLost == InitLost /\ [][NextLost]_vars

\* The watched delivery of goroutine t is about to return.
Returning(t) ==
    /\ thread[t].pc = "done"
    /\ thread[t].op = "deliverPacket"
    /\ "stayed" \in DOMAIN thread[t]

\* C33 as stated: every registration using NIC 0, a deliverPacket call for a
\* unicast datagram during the whole of which some registration matching the
\* inbound id stayed registered delivers the datagram to some endpoint, also
\* when a more specific registration is unregistered between the lookup and
\* the hand-off.
C33_AsStated ==
    \A t \in Deliverers :
       (Returning(t) /\ thread[t].stayed # {}) => thread[t].calls # <<>>

\* The datagram reached nobody and deliverPacket returns true, though endpoint
\* 1 was bound to port 53 on any address all the time: the socket on
\* 10.0.0.5:53 was closed after the lookup had found its group.
LostToListener ==
    /\ Returning("nic1")
    /\ thread["nic1"].ret
    /\ thread["nic1"].calls = <<>>
    /\ thread["nic1"].ptrs = <<[group |-> DNSLocal, unlinked |-> <<[endpoints |-> <<>>, seed |-> SeedB]>>]>>
    /\ <<<<protocolIDs(IPv4ProtocolNumber, UDPProtocolNumber), DNS, 0>>, 1>>
         \in thread["nic1"].stayed

\* Without a concurrent unregistration the statement holds: a delivery whose
\* groups were all still in the registry when it handed the datagram over, and
\* for which a matching registration stayed, has called an endpoint.
DeliveredUnlessUnlinked ==
    \A t \in Deliverers :
       (/\ Returning(t)
        /\ thread[t].stayed # {}
        /\ \A k \in 1..Len(thread[t].ptrs) : thread[t].ptrs[k].unlinked = <<>>)
       => thread[t].calls # <<>>

-----------------------------------------------------------------------------
(* SpecRace: two application goroutines bind one dual-stack UDP socket each *)
(* to port 53 on any NIC without port reuse, listing IPv4 and IPv6 in       *)
(* either order, and close them.                                            *)

RaceNets ==
    {<<IPv4ProtocolNumber, IPv6ProtocolNumber>>, <<IPv6ProtocolNumber, IPv4ProtocolNumber>>}

\* The socket each goroutine binds and closes.
SocketOf == [t \in Writers \cup SecondWriters |-> IF t \in Writers THEN 1 ELSE 2]

InitRace == InitWith({{TCPProtocolNumber}})

NextRace ==
    \/ \E t \in Writers \cup SecondWriters, nets \in RaceNets :
         StartRegisterEndpoint(t, nets, UDPProtocolNumber, DNS, SocketOf[t], FALSE, 0,
                               <<SeedB, SeedB>>)
    \/ \E t \in Writers \cup SecondWriters :
         StartUnregisterEndpoint(t, <<IPv4ProtocolNumber, IPv6ProtocolNumber>>,
                                 UDPProtocolNumber, DNS, SocketOf[t], 0)
    \/ \E t \in Writers \cup SecondWriters : LockPair(t)
    \/ \E t \in Writers \cup SecondWriters : SingleRegisterLocked(t)
    \/ \E t \in Writers \cup SecondWriters : UnregisterLocked(t)
    \/ \E t \in Threads : ThreadReturn(t)

SpecRace == InitRace /\ [][NextRace]_vars

\* The registerEndpoint call of goroutine t, begun when its socket had no
\* registration, is about to return ErrPortInUse.
FailedInUse(t) ==
    /\ thread[t].pc = "done"
    /\ thread[t].op = "registerEndpoint"
    /\ thread[t].fresh
    /\ thread[t].err = ErrPortInUse

\* C37 as stated: of two conflicting multi-protocol registrations that run
\* concurrently (same id and NIC, no reuse, the same network protocols in
\* different orders, no other registration present) at least one succeeds and
\* stays registered: they never both fail with PortInUse.
C37_AsStated ==
    ~(/\ FailedInUse("app")
      /\ FailedInUse("app2")
      /\ thread["app"].args.netProtos # thread["app2"].args.netProtos)

\* Both calls are about to return ErrPortInUse and the port is free: each had
\* registered its first protocol, found the other's socket under its second
\* and took its own registration back.
BothFailed ==
    /\ FailedInUse("app")
    /\ FailedInUse("app2")
    /\ thread["app"].args.netProtos = <<IPv4ProtocolNumber, IPv6ProtocolNumber>>
    /\ thread["app2"].args.netProtos = <<IPv6ProtocolNumber, IPv4ProtocolNumber>>
    /\ Slots(protocol) = {}

-----------------------------------------------------------------------------
(* The calls that hold the lock of a pair while they wait for something     *)
(* else: registerRawEndpoint and unregisterRawEndpoint write the raw list  *)
(* under eps.mu.Lock(); deliverRawPacket calls the raw endpoints under     *)
(* eps.mu.RLock(); findTransportEndpoint takes the group's read lock       *)
(* before it releases eps.mu.RLock().                                      *)

\* registerRawEndpoint and unregisterRawEndpoint up to eps.mu.Lock().
StartRawEndpoint(t, op, netProto, transProto, ep) ==
    LET th == [writer(op, [netProtos |-> <<netProto>>, transProto |-> transProto, ep |-> ep],
                      1, protocol) EXCEPT !.phase = "raw"]
    IN  /\ thread[t].pc = "idle"
        /\ op = "registerRawEndpoint" => Registrations(protocol) < MaxRegistrations
        /\ thread' = [thread EXCEPT ![t] =
                IF protocolIDs(netProto, transProto) \in DOMAIN protocol THEN th
                ELSE IF op = "registerRawEndpoint"
                THEN [th EXCEPT !.pc = "done", !.err = ErrNotSupported]
                ELSE [th EXCEPT !.pc = "panic"]]
        /\ UNCHANGED <<protocol, queuedProtocols, last, created, affinity, mu>>

\* The raw list is written, and eps.mu.Unlock().
RawLocked(t) ==
    LET th  == thread[t]
        pid == WriterPair(th)
    IN  /\ th.pc = "locked"
        /\ th.phase = "raw"
        /\ protocol' =
             IF th.op = "registerRawEndpoint"
             THEN transportDemuxer_registerRawEndpoint(protocol, th.args.netProtos[1],
                                                       th.args.transProto, th.args.ep).p
             ELSE transportDemuxer_unregisterRawEndpoint(protocol, th.args.netProtos[1],
                                                         th.args.transProto, th.args.ep)
        /\ thread' = [thread EXCEPT ![t].pc = "done"]
        /\ mu' = unlock(mu, pid)
        /\ UNCHANGED <<queuedProtocols, last, created, affinity>>

\* deliverRawPacket up to eps.mu.RLock().
StartDeliverRawPacket(t, r, transProto) ==
    LET th == delivery("deliverRawPacket", [r |-> r, transProto |-> transProto])
    IN  /\ thread[t].pc = "idle"
        /\ thread' = [thread EXCEPT ![t] =
                IF protocolIDs(r.NetProto, transProto) \in DOMAIN protocol
                THEN [th EXCEPT !.pc = "rawlookup"] ELSE [th EXCEPT !.pc = "done"]]
        /\ UNCHANGED <<protocol, queuedProtocols, last, created, affinity, mu>>

\* eps.mu.RLock() and the calls of the raw endpoints; without raw endpoints
\* the lock is released at once.
RawHandlePacket(t) ==
    LET th == thread[t]
        d  == transportDemuxer_deliverRawPacket(protocol, th.args.r, th.args.transProto)
    IN  /\ th.pc = "rawlookup"
        /\ mu[DeliverPair(th)] = NoThread
        /\ thread' = [thread EXCEPT ![t] =
                [th EXCEPT !.pc = IF d.calls = <<>> THEN "done" ELSE "rawhandling",
                           !.calls = d.calls, !.ret = d.ret]]
        /\ UNCHANGED <<protocol, queuedProtocols, last, created, affinity, mu>>

\* The raw endpoints have returned: eps.mu.RUnlock().
RawHandlePacketReturn(t) ==
    /\ thread[t].pc = "rawhandling"
    /\ thread' = [thread EXCEPT ![t].pc = "done"]
    /\ UNCHANGED <<protocol, queuedProtocols, last, created, affinity, mu>>

\* findTransportEndpoint up to eps.mu.RLock().
StartFindTransportEndpoint(t, netProto, transProto, id, r) ==
    LET th == [pc |-> "find", op |-> "findTransportEndpoint",
               args |-> [netProto |-> netProto, transProto |-> transProto, id |-> id, r |-> r],
               ptrs |-> <<>>,    \* epsByNic, if one was found
               k |-> 0,
               found |-> <<>>]   \* the result: no endpoint, or one
    IN  /\ thread[t].pc = "idle"
        /\ thread' = [thread EXCEPT ![t] =
                IF protocolIDs(netProto, transProto) \in DOMAIN protocol
                THEN th ELSE [th EXCEPT !.pc = "done"]]
        /\ UNCHANGED <<protocol, queuedProtocols, last, created, affinity, mu>>

\* eps.mu.RLock() and findEndpointLocked; the lock is released only if no
\* group was found.
FindEndpoint(t) ==
    LET th    == thread[t]
        found == findEndpointLocked(protocol[DeliverPair(th)], th.args.id)
    IN  /\ th.pc = "find"
        /\ mu[DeliverPair(th)] = NoThread
        /\ thread' = [thread EXCEPT ![t] =
                IF found = <<>> THEN [th EXCEPT !.pc = "done"]
                ELSE [th EXCEPT !.pc = "findgroup", !.k = 1, !.ptrs = <<ptr(found[1])>>]]
        /\ UNCHANGED <<protocol, queuedProtocols, last, created, affinity, mu>>

\* epsByNic.mu.RLock(), eps.mu.RUnlock(), the selection in the set of the NIC
\* and epsByNic.mu.RUnlock().
FindInGroup(t) ==
    LET th  == thread[t]
        g   == protocol[DeliverPair(th)].endpoints[th.ptrs[1].group]
        nic == resolveNic(g, th.args.r.nic)
    IN  /\ th.pc = "findgroup"
        /\ thread' = [thread EXCEPT ![t] =
                [th EXCEPT !.pc = "done",
                           !.found = IF nic = <<>> THEN <<>>
                                   ELSE <<selectEndpoint(th.args.id, g.endpoints[nic[1]],
                                                         g.seed)>>]]
        /\ UNCHANGED <<protocol, queuedProtocols, last, created, affinity, mu>>

-----------------------------------------------------------------------------
(* SpecLive: one application goroutine binds and closes UDP sockets for     *)
(* IPv4, another a raw socket, while the dispatcher of NIC 1 delivers      *)
(* datagrams, ICMP errors and raw packets and looks endpoints up.  A       *)
(* goroutine inside a                                                      *)
(* call keeps running: a lock it waits for is granted to it when it is     *)
(* free often enough (sync.RWMutex lets no waiter starve), and the         *)
(* endpoints it has called return.                                         *)

InitLive == InitWith({{TCPProtocolNumber}})

\* The datagram for 10.0.0.5:53 on NIC 1.
LivePacket == Inbound(IPv4ProtocolNumber, 1, 53, LocalA, 1234, RemoteA)

\* The calls a goroutine may begin.
StartLive ==
    \/ \E t \in Writers :
         StartRegisterEndpoint(t, <<IPv4ProtocolNumber>>, UDPProtocolNumber, DNS, SocketOf[t],
                               FALSE, 0, <<SeedB>>)
    \/ \E t \in Writers :
         StartUnregisterEndpoint(t, <<IPv4ProtocolNumber>>, UDPProtocolNumber, DNS, SocketOf[t],
                                 0)
    \/ \E t \in SecondWriters, op \in {"registerRawEndpoint", "unregisterRawEndpoint"} :
         StartRawEndpoint(t, op, IPv4ProtocolNumber, UDPProtocolNumber, SocketOf[t])
    \/ \E t \in Deliverers, pk \in ConcPackets :
         StartDeliverPacket(t, pk.r, UDPProtocolNumber, pk.id)
    \/ \E t \in Deliverers :
         StartDeliverControlPacket(t, 1, IPv4ProtocolNumber, UDPProtocolNumber, LivePacket.id)
    \/ \E t \in Deliverers :
         StartDeliverRawPacket(t, LivePacket.r, UDPProtocolNumber)
    \/ \E t \in Deliverers :
         StartFindTransportEndpoint(t, IPv4ProtocolNumber, UDPProtocolNumber, LivePacket.id,
                                    LivePacket.r)

\* The next step of the call goroutine t is in.
Step(t) ==
    \/ LockPair(t)
    \/ SingleRegisterLocked(t)
    \/ UnregisterLocked(t)
    \/ RawLocked(t)
    \/ LookupEndpoints(t)
    \/ HandlePacket(t)
    \/ HandlePacketReturn(t)
    \/ RawHandlePacket(t)
    \/ RawHandlePacketReturn(t)
    \/ FindEndpoint(t)
    \/ FindInGroup(t)
    \/ ThreadReturn(t)

NextLive == StartLive \/ \E t \in Threads : Step(t)

SpecLive == InitLive /\ [][NextLive]_vars /\ \A t \in Threads : SF_vars(Step(t))

\* The locks, by level: the registry lock of a pair (transportEndpoints.mu),
\* the lock of a group (endpointsByNic.mu), the lock of a set
\* (multiPortEndpoint.mu).
RegistryLevel == 1
GroupLevel == 2
SetLevel == 3

\* The levels of the locks goroutine t holds from one step to the next.
holds(t) ==
    LET th == thread[t]
    IN  IF th.pc \in {"locked", "findgroup", "rawhandling"} THEN {RegistryLevel}
        ELSE IF th.pc = "handling"
        THEN IF th.op = "deliverPacket" /\ isMulticastOrBroadcast(th.args.id.LocalAddress)
             THEN {GroupLevel, SetLevel}
             ELSE {GroupLevel}
        ELSE {}

\* The levels of the locks the next step of goroutine t takes, in the order
\* in which the code takes them.
acquires(t) ==
    LET th == thread[t]
    IN  IF th.pc \in {"lock", "lookup", "find", "rawlookup"} THEN <<RegistryLevel>>
        ELSE IF th.pc = "locked" /\ th.phase = "register" THEN <<GroupLevel, SetLevel>>
        ELSE IF th.pc = "locked" /\ th.phase = "unregister"
        THEN IF th.args.id \notin DOMAIN protocol[WriterPair(th)].endpoints THEN <<>>
             ELSE IF th.args.bindToDevice
                       \notin DOMAIN protocol[WriterPair(th)].endpoints[th.args.id].endpoints
             THEN <<GroupLevel>>
             ELSE <<GroupLevel, SetLevel>>
        ELSE IF th.pc = "findgroup" THEN <<GroupLevel>>
        ELSE IF th.pc = "handle"
        THEN IF th.op = "deliverPacket" /\ isMulticastOrBroadcast(th.args.id.LocalAddress)
                /\ resolveNic(deref(protocol, DeliverPair(th), th.ptrs[th.k]),
                              DeliverNic(th)) # <<>>
             THEN <<GroupLevel, SetLevel>>
             ELSE <<GroupLevel>>
        ELSE <<>>

\* Every lock a goroutine takes is of a higher level than the locks it holds
\* and than the locks it took before in the same step.
LockOrder ==
    \A t \in Threads :
       /\ \A i, j \in 1..Len(acquires(t)) : i < j => acquires(t)[i] < acquires(t)[j]
       /\ \A h \in holds(t) : \A i \in 1..Len(acquires(t)) : h < acquires(t)[i]

\* The goroutines that hold a lock the next step of goroutine t needs.
WaitsFor(t) ==
    LET th == thread[t]
    IN  IF th.pc = "lock"
        THEN ({mu[WriterPair(th)]} \ {NoThread}) \cup PairReaders(WriterPair(th))
        ELSE IF th.pc \in {"lookup", "find", "rawlookup"}
        THEN {mu[DeliverPair(th)]} \ {NoThread}
        ELSE IF th.pc = "locked" /\ th.phase # "raw"
        THEN GroupReaders(WriterPair(th), th.args.id)
        ELSE {}

RECURSIVE WaitsForChain(_, _)
WaitsForChain(S, n) ==
    IF n = 0 THEN S
    ELSE WaitsForChain(S \cup UNION {WaitsFor(u) : u \in S}, n - 1)

\* No goroutine waits, directly or through others, for itself; and a
\* goroutine inside a call that waits for nobody can take its next step.
NoWaitCycle ==
    \A t \in Threads :
       /\ t \notin WaitsForChain(WaitsFor(t), Cardinality(Threads))
       /\ (thread[t].pc # "idle" /\ WaitsFor(t) = {}) => ENABLED Step(t)

\* C32: whatever the interleaving of registerEndpoint, unregisterEndpoint,
\* registerRawEndpoint, unregisterRawEndpoint, findTransportEndpoint,
\* deliverPacket, deliverRawPacket and deliverControlPacket, locks are taken
\* in the order registry, group, set only, no goroutine waits in a cycle, and
\* every call returns, provided the endpoints it calls return.
C32_DeadlockFree ==
    /\ [](LockOrder /\ NoWaitCycle)
    /\ \A t \in Threads : (thread[t].pc # "idle") ~> (thread[t].pc = "idle")

\* A registration holds the lock of the pair and waits for the lock of the
\* group, which a delivery holds while the endpoint runs; another goroutine
\* waits for the lock of the pair.
C32_Witness ==
    /\ thread["app"].pc = "locked"
    /\ thread["app"].phase = "register"
    /\ WaitsFor("app") = {"nic1"}
    /\ thread["app2"].pc = "lock"
    /\ WaitsFor("app2") = {"app"}

\* A lookup holds the read lock of the pair and is about to take the read
\* lock of the group, while a raw registration waits for the pair.
C32_WitnessFind ==
    /\ thread["nic1"].pc = "findgroup"
    /\ thread["app2"].pc = "lock"
    /\ thread["app2"].phase = "raw"
    /\ WaitsFor("app2") = {"nic1"}

=============================================================================
